---- MODULE Spec2Model ----
(***************************************************************************)
(* A model of the LWC language server's custom-tag registry                 *)
(* (metadata-utils/custom-components-util.ts) and of its HTML completion    *)
(* engine (html-language-service/services/htmlCompletion.ts).               *)
(*                                                                          *)
(* Strings are sequences of one-character strings, so that concatenation,   *)
(* split, replace and the scanner are computed character by character.      *)
(* An optional value (undefined | v) is the sequence <<>> or <<v>>.         *)
(***************************************************************************)
EXTENDS Integers, Sequences, FiniteSets, TLC

VARIABLES
    LWC_TAGS,      \* the registry: Map<string, TagInfo>
    sfdx,          \* context.type === WorkspaceType.SFDX
    inflight,      \* file -> number of addCustomTagFromFile calls awaiting compileFile
    scanPc,        \* position of loadCustomTagsFromFiles: idle | loop | await | done | aborted
    scanIdx,       \* index of the file the scan is at
    lastOp,        \* history: per tag, the last operation applied to that key
    lastCompile,   \* history: per tag, how the compile that completed last ended
    group,         \* history: per tag, 0 | 1 | 2 (several) tasks in the current overlapping group
    lastCall,      \* history: the call or continuation that ran last, with its inputs
    lwcStandard,   \* the parsed content of lwc-standard.json
    stdPc,         \* position of loadStandardComponents: reading | loaded
    textDocument,  \* the open template: its uri, languageId and text
    completion     \* the last completion request and the list it returned

vars == <<LWC_TAGS, sfdx, inflight, scanPc, scanIdx, lastOp, lastCompile, group,
          lastCall, lwcStandard, stdPc, textDocument, completion>>

(***************************************************************************)
(* Strings and optional values                                              *)
(***************************************************************************)
None == <<>>
Some(v) == <<v>>

\* the words of the paths, tags and attributes, as sequences of characters
Str ==
    [c |-> <<"c">>,
     lwc |-> <<"l", "w", "c">>,
     aura |-> <<"a", "u", "r", "a">>,
     foo |-> <<"f", "o", "o">>,
     bar |-> <<"b", "a", "r">>,
     util |-> <<"u", "t", "i", "l">>,
     p1 |-> <<"p", "1">>,
     p2 |-> <<"p", "2">>,
     js |-> <<"j", "s">>,
     html |-> <<"h", "t", "m", "l">>,
     dash |-> <<"-">>,
     button |-> <<"b", "u", "t", "t", "o", "n">>,
     card |-> <<"c", "a", "r", "d">>,
     iconName |-> <<"i", "c", "o", "n", "N", "a", "m", "e">>,
     label |-> <<"l", "a", "b", "e", "l">>,
     br |-> <<"b", "r">>,
     hr |-> <<"h", "r">>,
     img |-> <<"i", "m", "g">>,
     input |-> <<"i", "n", "p", "u", "t">>,
     div |-> <<"d", "i", "v">>,
     p |-> <<"p">>,
     hidden |-> <<"h", "i", "d", "d", "e", "n">>,
     onclick |-> <<"o", "n", "c", "l", "i", "c", "k">>,
     dir |-> <<"d", "i", "r">>,
     ltr |-> <<"l", "t", "r">>,
     rtl |-> <<"r", "t", "l">>,
     cfoo |-> <<"c", "-", "f", "o", "o">>]
s_lightning_ == <<"l", "i", "g", "h", "t", "n", "i", "n", "g", "-">>

\* s.indexOf(ch), 1-based; 0 when absent
RECURSIVE IndexFrom(_, _, _)
IndexFrom(s, ch, i) ==
    IF i > Len(s) THEN 0
    ELSE IF s[i] = ch THEN i
    ELSE IndexFrom(s, ch, i + 1)

\* tag.split('-')[0]
SplitFirst(s, ch) ==
    LET i == IndexFrom(s, ch, 1)
    IN IF i = 0 THEN s ELSE SubSeq(s, 1, i - 1)

(***************************************************************************)
(* The JavaScript Map behind LWC_TAGS                                       *)
(***************************************************************************)
EmptyMap == [k \in {} |-> None]
\* faulty variant: the map is replaced by the one entry
MapSet_Only(m, k, v) == [x \in {k} |-> v]
MapSet(m, k, v) == [x \in (DOMAIN m) \cup {k} |-> IF x = k THEN v ELSE m[x]]
MapDelete(m, k) == [x \in (DOMAIN m) \ {k} |-> m[x]]
MapGet(m, k) == IF k \in DOMAIN m THEN Some(m[k]) ELSE None

(***************************************************************************)
(* Files, URIs and the naming convention (lightning-lsp-common)             *)
(***************************************************************************)
\* a file path: its directories, the file's base name and its extension
FileA == [dirs |-> <<Str.p1, Str.lwc, Str.foo>>, name |-> Str.foo, ext |-> Str.js]
FileB == [dirs |-> <<Str.p2, Str.lwc, Str.foo>>, name |-> Str.foo, ext |-> Str.js]
FileC == [dirs |-> <<Str.p1, Str.lwc, Str.bar>>, name |-> Str.bar, ext |-> Str.js]
FileD == [dirs |-> <<Str.p1, Str.lwc, Str.foo>>, name |-> Str.util, ext |-> Str.js]
FileE == [dirs |-> <<Str.p1, Str.lwc, Str.foo>>, name |-> Str.foo, ext |-> Str.html]
FileF == [dirs |-> <<Str.p1, Str.aura, Str.bar>>, name |-> Str.bar, ext |-> Str.js]
Files == {FileA, FileB, FileC, FileD, FileE, FileF}

\* URI.file(path.resolve(file)).toString() and URI.parse(uri).fsPath
UriFile(file) == [scheme |-> "file", path |-> file]
FsPath(uri) == uri.path

\* componentUtil.tagFromFile: the component's file is named after its directory;
\* the namespace is c in an SFDX project and the directory above otherwise
tagFromFile(file, sfdxProject) ==
    LET n == Len(file.dirs)
        parentDirName == file.dirs[n]
    IN IF file.name = parentDirName
       THEN Some((IF sfdxProject THEN Str.c ELSE file.dirs[n - 1]) \o Str.dash \o parentDirName)
       ELSE None

\* componentUtil.isJSComponent
isJSComponent(file) == file.ext = Str.js /\ tagFromFile(file, TRUE) # None

\* f.uri.match(`.*${path.sep}lwc${path.sep}.*.js`), on the paths of Files: a
\* directory lwc followed by a rest that holds a character and then js
UriMatchesLwcJs(uri) ==
    /\ \E i \in 1..Len(uri.path.dirs) : uri.path.dirs[i] = Str.lwc
    /\ uri.path.ext = Str.js

TaskFiles == {f \in Files : tagFromFile(f, TRUE) # None}
Tags == {tagFromFile(f, b)[1] : f \in TaskFiles, b \in BOOLEAN}
FilesOfTagTable == [t \in Tags, b \in BOOLEAN |-> {f \in TaskFiles : tagFromFile(f, b) = Some(t)}]
FilesOfTag(t, b) == FilesOfTagTable[t, b]

(***************************************************************************)
(* The compiler's metadata (javascript/compiler)                            *)
(***************************************************************************)
Loc1 == [start |-> [line |-> 3, column |-> 0], end |-> [line |-> 9, column |-> 1]]
Meta1 == [doc |-> "doc1", declarationLoc |-> None,
          props |-> << <<"l", "a", "b", "e", "l">> >>, methods |-> <<>>]
Meta2 == [doc |-> "doc2", declarationLoc |-> Some(Loc1),
          props |-> <<>>, methods |-> << <<"f", "o", "c", "u", "s">> >>]
Metadata == {Meta1, Meta2}

\* what `await compileFile(file)` resumes with
CompileOutcomes ==
    {[kind |-> "throw", metadata |-> None], [kind |-> "result", metadata |-> None]}
    \cup {[kind |-> "result", metadata |-> Some(m)] : m \in Metadata}

\* babel locations count lines from 1, vscode ranges from 0
toVSCodeRange(loc) ==
    [start |-> [line |-> loc.start.line - 1, character |-> loc.start.column],
     end |-> [line |-> loc.end.line - 1, character |-> loc.end.column]]
RangeCreate(l1, c1, l2, c2) ==
    [start |-> [line |-> l1, character |-> c1], end |-> [line |-> l2, character |-> c2]]

AttributeInfo(name, documentation, type, location, detail) ==
    [name |-> name, documentation |-> documentation, type |-> type,
     location |-> location, detail |-> detail]

extractAttributes(metadata, uri) ==
    [i \in 1..Len(metadata.props) |->
        AttributeInfo(metadata.props[i], None, None, Some(uri), Some("LWC custom attribute"))]
getProperties(metadata) == metadata.props
getMethods(metadata) == metadata.methods

TagInfo(lwc, attributes, location, documentation, name, namespace, properties, methods) ==
    [lwc |-> lwc, attributes |-> attributes, location |-> location,
     documentation |-> documentation, name |-> name, namespace |-> namespace,
     properties |-> properties, methods |-> methods]

(***************************************************************************)
(* Registry operations                                                      *)
(***************************************************************************)
getLwcByTag(tags, tag) == MapGet(tags, tag)

\* faulty variant: deletes under the namespace instead of the tag
removeCustomTag_ByNamespace(tags, tag) == MapDelete(tags, SplitFirst(tag, "-"))
removeCustomTag(tags, tag) == MapDelete(tags, tag)

\* faulty variant: an existing record is updated field by field and keeps its properties
addCustomTag_Merge(tags, tag, uri, metadata) ==
    LET range == IF metadata.declarationLoc # None
                 THEN toVSCodeRange(metadata.declarationLoc[1])
                 ELSE RangeCreate(0, 0, 0, 0)
        info == TagInfo(TRUE, extractAttributes(metadata, uri),
                        Some([uri |-> uri, range |-> range]), Some(metadata.doc), Some(tag),
                        Some(SplitFirst(tag, "-")), getProperties(metadata),
                        getMethods(metadata))
    IN MapSet(tags, tag,
              IF tag \in DOMAIN tags
              THEN [info EXCEPT !.properties = tags[tag].properties]
              ELSE info)

addCustomTag(tags, tag, uri, metadata) ==
    LET doc == metadata.doc
        attributes == extractAttributes(metadata, uri)
        range == IF metadata.declarationLoc # None
                 THEN toVSCodeRange(metadata.declarationLoc[1])
                 ELSE RangeCreate(0, 0, 0, 0)
        location == [uri |-> uri, range |-> range]
        namespace == SplitFirst(tag, "-")
    IN MapSet(tags, tag,
              TagInfo(TRUE, attributes, Some(location), Some(doc), Some(tag),
                      Some(namespace), getProperties(metadata), getMethods(metadata)))

\* faulty variant: no try/catch around the compile
addCustomTagFromFileResume_NoCatch(tags, tag, file, outcome) ==
    IF outcome.kind = "throw"
    THEN [tags |-> tags, threw |-> TRUE]
    ELSE IF outcome.metadata # None
    THEN [tags |-> addCustomTag(tags, tag, UriFile(file), outcome.metadata[1]),
          threw |-> FALSE]
    ELSE [tags |-> tags, threw |-> FALSE]

\* the part of addCustomTagFromFile after `await compileFile(file)`: the new
\* registry, and whether an exception leaves the function
addCustomTagFromFileResume(tags, tag, file, outcome) ==
    IF outcome.kind = "throw"
    THEN [tags |-> tags, threw |-> FALSE]                      \* catch (error)
    ELSE IF outcome.metadata # None
    THEN [tags |-> addCustomTag(tags, tag, UriFile(file), outcome.metadata[1]),
          threw |-> FALSE]
    ELSE [tags |-> tags, threw |-> FALSE]

addCustomTagFromResults(tags, uri, metadata, sfdxProject) ==
    LET tag == tagFromFile(FsPath(uri), sfdxProject)
    IN IF tag # None THEN addCustomTag(tags, tag[1], uri, metadata) ELSE tags

removeCustomTagFromFile(tags, file, sfdxProject) ==
    LET tag == tagFromFile(file, sfdxProject)
    IN IF tag # None THEN removeCustomTag(tags, tag[1]) ELSE tags


\* addCustomTagFromFile up to its `await compileFile(file)`: a compile of the
\* file is in flight when the file has a tag
addCustomTagFromFileStart(pending, file, sfdxProject) ==
    IF tagFromFile(file, sfdxProject) # None
    THEN [pending EXCEPT ![file] = @ + 1]
    ELSE pending

FileChangeTypes == {"Created", "Changed", "Deleted"}

\* faulty variant: a Changed event re-indexes the file like a Created one
handleFileEvent_ChangedReindexes(reg, f, isSfdxProject) ==
    IF UriMatchesLwcJs(f.uri)
    THEN LET file == FsPath(f.uri)
         IN IF isJSComponent(file)
            THEN IF f.type = "Created" \/ f.type = "Changed"
                 THEN [reg EXCEPT !.pending = addCustomTagFromFileStart(@, file, isSfdxProject)]
                 ELSE IF f.type = "Deleted"
                 THEN [reg EXCEPT !.tags = removeCustomTagFromFile(@, file, isSfdxProject)]
                 ELSE reg
            ELSE reg
    ELSE reg

\* the body of updatedFiles.forEach, on reg = [tags, pending]
handleFileEvent(reg, f, isSfdxProject) ==
    IF UriMatchesLwcJs(f.uri)
    THEN LET file == FsPath(f.uri)
         IN IF isJSComponent(file)
            THEN IF f.type = "Created"
                 THEN [reg EXCEPT !.pending = addCustomTagFromFileStart(@, file, isSfdxProject)]
                 ELSE IF f.type = "Deleted"
                 THEN [reg EXCEPT !.tags = removeCustomTagFromFile(@, file, isSfdxProject)]
                 ELSE reg
            ELSE reg
    ELSE reg

RECURSIVE updateCustomComponentIndex(_, _, _)
updateCustomComponentIndex(reg, updatedFiles, isSfdxProject) ==
    IF updatedFiles = <<>> THEN reg
    ELSE updateCustomComponentIndex(handleFileEvent(reg, Head(updatedFiles), isSfdxProject),
                                    Tail(updatedFiles), isSfdxProject)

resetCustomComponents(tags) == EmptyMap

(***************************************************************************)
(* The workspace scan: indexCustomComponents / loadCustomTagsFromFiles      *)
(***************************************************************************)
\* context.findAllModules()
ScanFiles == <<FileA, FileD, FileC>>

\* faulty variant: the loop ends at the first file without a tag
loadCustomTagsFromFilesAt_StopsAtUntagged(filePaths, idx, sfdxProject) ==
    IF idx > Len(filePaths) \/ tagFromFile(filePaths[idx], sfdxProject) = None
    THEN [pc |-> "done", idx |-> idx]
    ELSE [pc |-> "await", idx |-> idx]
\* the loop head of loadCustomTagsFromFiles for the file at idx, up to the next
\* await: the loop is over (done), the file has no tag and the await is of a
\* settled promise (tick), or its compile is in flight (await)
loadCustomTagsFromFilesAt(filePaths, idx, sfdxProject) ==
    IF idx > Len(filePaths) THEN [pc |-> "done", idx |-> idx]
    ELSE IF tagFromFile(filePaths[idx], sfdxProject) = None THEN [pc |-> "tick", idx |-> idx]
    ELSE [pc |-> "await", idx |-> idx]

\* where the loop goes when `await addCustomTagFromFile(file)` settles
loadCustomTagsFromFilesResume(filePaths, idx, sfdxProject, threw) ==
    IF threw THEN [pc |-> "aborted", idx |-> idx]
    ELSE loadCustomTagsFromFilesAt(filePaths, idx + 1, sfdxProject)

(***************************************************************************)
(* Bounds                                                                   *)
(***************************************************************************)
MaxInFlight == 2    \* compiles in flight at once

(***************************************************************************)
(* Inputs                                                                   *)
(***************************************************************************)
Events == {[uri |-> UriFile(f), type |-> ty] : f \in Files, ty \in FileChangeTypes}
Ev(f, ty) == [uri |-> UriFile(f), type |-> ty]

\* the FileEvent[] of one call: every single event, and some pairs
\* the sequences over S of length up to n
RECURSIVE SeqsOfLen(_, _)
SeqsOfLen(S, n) ==
    IF n = 0 THEN {<<>>}
    ELSE LET shorter == SeqsOfLen(S, n - 1)
         IN shorter \cup {Append(q, x) : q \in {r \in shorter : Len(r) = n - 1}, x \in S}

EventBatches ==
    {<<e>> : e \in Events}
    \cup {<<Ev(FileA, "Created"), Ev(FileA, "Deleted")>>,
          <<Ev(FileA, "Created"), Ev(FileB, "Created")>>,
          <<Ev(FileC, "Deleted"), Ev(FileC, "Created")>>}

(***************************************************************************)
(* History                                                                  *)
(***************************************************************************)
NoOp == [k |-> "none"]
RemoveOp == [k |-> "remove"]
AddOp(by, uri, metadata) == [k |-> "add", by |-> by, uri |-> uri, metadata |-> metadata]

ScanTagAt(pc, idx, b) ==
    IF pc = "await" THEN tagFromFile(ScanFiles[idx], b) ELSE None

RECURSIVE SumOver(_, _)
SumOver(S, g) ==
    IF S = {} THEN 0
    ELSE LET x == CHOOSE y \in S : TRUE IN g[x] + SumOver(S \ {x}, g)

\* compiles in flight for tag t, and in all
InFlightOf(pending, pc, idx, b, t) ==
    SumOver(FilesOfTag(t, b), pending) + (IF ScanTagAt(pc, idx, b) = Some(t) THEN 1 ELSE 0)
TotalInFlight(pending, pc) ==
    SumOver(TaskFiles, pending) + (IF pc = "await" THEN 1 ELSE 0)

EventHandled(f) == UriMatchesLwcJs(f.uri) /\ isJSComponent(FsPath(f.uri))

\* h = [lastOp, lastCompile, group, n]: n[t] counts the compiles in flight for t
HistEvent(h, f, b) ==
    IF f.type = "Changed" \/ ~EventHandled(f) THEN h
    ELSE LET t == tagFromFile(FsPath(f.uri), b)[1]
         IN IF f.type = "Deleted"
            THEN [h EXCEPT !.lastOp[t] = RemoveOp]
            ELSE [h EXCEPT !.group[t] = IF h.n[t] = 0 THEN 1 ELSE 2,
                           !.lastCompile[t] = IF h.n[t] = 0 THEN "none" ELSE @,
                           !.n[t] = @ + 1]

RECURSIVE HistEvents(_, _, _)
HistEvents(h, events, b) ==
    IF events = <<>> THEN h
    ELSE HistEvents(HistEvent(h, Head(events), b), Tail(events), b)

HasMetadata(outcome) == outcome.kind = "result" /\ outcome.metadata # None

\* the history after the compile of `file` (tag t) settled with `outcome` and, when
\* the scan goes on, after it started the compile of its next file (tag t2)
HistSettle(t, file, outcome, t2) ==
    LET op == IF HasMetadata(outcome)
              THEN [lastOp EXCEPT ![t] = AddOp("task", UriFile(file), outcome.metadata[1])]
              ELSE lastOp
        lc == [lastCompile EXCEPT ![t] = IF HasMetadata(outcome) THEN "meta" ELSE "fail"]
        n == IF t2 = None THEN 0 ELSE InFlightOf(inflight, "idle", 0, sfdx, t2[1])
    IN [lastOp |-> op,
        lastCompile |-> IF t2 = None THEN lc
                        ELSE [lc EXCEPT ![t2[1]] = IF n = 0 THEN "none" ELSE @],
        group |-> IF t2 = None THEN group
                  ELSE [group EXCEPT ![t2[1]] = IF n = 0 THEN 1 ELSE 2]]

(***************************************************************************)
(* Actions of the registry.  Each takes the history h it leaves behind:     *)
(* whether lastOp (h.ops) and lastCompile and group (h.groups) are kept,    *)
(* and the kind of call lastCall records (h.calls).                         *)
(***************************************************************************)
StdVarsUnchanged == UNCHANGED <<lwcStandard, stdPc, textDocument, completion>>

Keep(h, new) ==
    /\ lastOp' = IF h.ops THEN new.lastOp ELSE lastOp
    /\ lastCompile' = IF h.groups THEN new.lastCompile ELSE lastCompile
    /\ group' = IF h.groups THEN new.group ELSE group
    /\ lastCall' = IF h.calls = new.lastCall.op THEN new.lastCall ELSE [op |-> "other"]

Now == [lastOp |-> lastOp, lastCompile |-> lastCompile, group |-> group]

UpdateCustomComponentIndex(h, updatedFiles) ==
    LET reg == updateCustomComponentIndex([tags |-> LWC_TAGS, pending |-> inflight],
                                          updatedFiles, sfdx)
        new == IF h.ops \/ h.groups
               THEN HistEvents([lastOp |-> lastOp, lastCompile |-> lastCompile, group |-> group,
                                n |-> [t \in Tags |->
                                         InFlightOf(inflight, scanPc, scanIdx, sfdx, t)]],
                               updatedFiles, sfdx)
               ELSE Now
    IN /\ TotalInFlight(reg.pending, scanPc) <= MaxInFlight
       /\ LWC_TAGS' = reg.tags
       /\ inflight' = reg.pending
       /\ Keep(h, [lastOp |-> new.lastOp, lastCompile |-> new.lastCompile, group |-> new.group,
                   lastCall |-> [op |-> "update", events |-> updatedFiles]])
       /\ UNCHANGED <<sfdx, scanPc, scanIdx>>
       /\ StdVarsUnchanged

\* the compile of an addCustomTagFromFile call started by a Created event settles
CompileSettles(h, file, outcome) ==
    /\ inflight[file] > 0
    /\ LET t == tagFromFile(file, sfdx)[1]
           r == addCustomTagFromFileResume(LWC_TAGS, t, file, outcome)
           new == HistSettle(t, file, outcome, None)
       IN /\ LWC_TAGS' = r.tags
          /\ Keep(h, [lastOp |-> new.lastOp, lastCompile |-> new.lastCompile,
                      group |-> new.group,
                      lastCall |-> [op |-> "settle", file |-> file, outcome |-> outcome,
                                    scan |-> FALSE]])
    /\ inflight' = [inflight EXCEPT ![file] = @ - 1]
    /\ UNCHANGED <<sfdx, scanPc, scanIdx>>
    /\ StdVarsUnchanged

AddCustomTagFromResults(h, uri, metadata) ==
    /\ LWC_TAGS' = addCustomTagFromResults(LWC_TAGS, uri, metadata, sfdx)
    /\ LET t == tagFromFile(FsPath(uri), sfdx)
       IN Keep(h, [Now EXCEPT !.lastOp = IF t # None
                                         THEN [lastOp EXCEPT ![t[1]] = AddOp("results", uri, metadata)]
                                         ELSE lastOp]
                  @@ [lastCall |-> [op |-> "results", uri |-> uri, metadata |-> metadata]])
    /\ UNCHANGED <<sfdx, inflight, scanPc, scanIdx>>
    /\ StdVarsUnchanged

ResetCustomComponents(h) ==
    /\ LWC_TAGS' = resetCustomComponents(LWC_TAGS)
    /\ Keep(h, [Now EXCEPT !.lastOp = [t \in Tags |-> RemoveOp]]
               @@ [lastCall |-> [op |-> "reset"]])
    /\ UNCHANGED <<sfdx, inflight, scanPc, scanIdx>>
    /\ StdVarsUnchanged

\* the scan goes to `next`; starting a compile there opens or joins a group
ScanMoves(h, next, call) ==
    /\ next.pc = "await" => TotalInFlight(inflight, "idle") < MaxInFlight
    /\ scanPc' = next.pc
    /\ scanIdx' = next.idx
    /\ LET t2 == ScanTagAt(next.pc, next.idx, sfdx)
           n == IF t2 = None THEN 0 ELSE InFlightOf(inflight, "idle", 0, sfdx, t2[1])
       IN Keep(h, [lastOp |-> lastOp,
                   lastCompile |-> IF t2 = None THEN lastCompile
                                   ELSE [lastCompile EXCEPT ![t2[1]] = IF n = 0 THEN "none" ELSE @],
                   group |-> IF t2 = None THEN group
                             ELSE [group EXCEPT ![t2[1]] = IF n = 0 THEN 1 ELSE 2],
                   lastCall |-> call])

IndexCustomComponents(h) ==
    /\ scanPc = "idle"
    /\ ScanMoves(h, loadCustomTagsFromFilesAt(ScanFiles, 1, sfdx), [op |-> "index"])
    /\ UNCHANGED <<LWC_TAGS, sfdx, inflight>>
    /\ StdVarsUnchanged

\* `await addCustomTagFromFile(file)` of a file without a tag settles
ScanTick(h) ==
    /\ scanPc = "tick"
    /\ ScanMoves(h, loadCustomTagsFromFilesResume(ScanFiles, scanIdx, sfdx, FALSE),
                 [op |-> "tick"])
    /\ UNCHANGED <<LWC_TAGS, sfdx, inflight>>
    /\ StdVarsUnchanged

\* the compile the scan awaits settles
ScanCompileSettles(h, outcome) ==
    /\ scanPc = "await"
    /\ LET file == ScanFiles[scanIdx]
           t == tagFromFile(file, sfdx)[1]
           r == addCustomTagFromFileResume(LWC_TAGS, t, file, outcome)
           next == loadCustomTagsFromFilesResume(ScanFiles, scanIdx, sfdx, r.threw)
           new == HistSettle(t, file, outcome, ScanTagAt(next.pc, next.idx, sfdx))
       IN /\ next.pc = "await" => TotalInFlight(inflight, "idle") < MaxInFlight
          /\ LWC_TAGS' = r.tags
          /\ scanPc' = next.pc
          /\ scanIdx' = next.idx
          /\ Keep(h, [lastOp |-> new.lastOp, lastCompile |-> new.lastCompile,
                      group |-> new.group,
                      lastCall |-> [op |-> "settle", file |-> file, outcome |-> outcome,
                                    scan |-> TRUE]])
    /\ UNCHANGED <<sfdx, inflight>>
    /\ StdVarsUnchanged

Init ==
    /\ LWC_TAGS = EmptyMap
    /\ sfdx \in BOOLEAN
    /\ inflight = [f \in TaskFiles |-> 0]
    /\ scanPc = "idle"
    /\ scanIdx = 0
    /\ lastOp = [t \in Tags |-> NoOp]
    /\ lastCompile = [t \in Tags |-> "none"]
    /\ group = [t \in Tags |-> 0]
    /\ lastCall = [op |-> "init"]
    /\ lwcStandard = EmptyMap
    /\ stdPc = "idle"
    /\ textDocument = [uri |-> UriFile(FileE), languageId |-> "html", text |-> <<>>]
    /\ completion = [op |-> "none"]

\* the files whose compile results addCustomTagFromResults is handed
ResultFiles == {FileA, FileB, FileC, FileD}

RegistryNext(h) ==
    \/ \E updatedFiles \in EventBatches : UpdateCustomComponentIndex(h, updatedFiles)
    \/ \E file \in TaskFiles, outcome \in CompileOutcomes : CompileSettles(h, file, outcome)
    \/ \E f \in ResultFiles, m \in Metadata : AddCustomTagFromResults(h, UriFile(f), m)
    \/ ResetCustomComponents(h)
    \/ IndexCustomComponents(h)
    \/ ScanTick(h)
    \/ \E outcome \in CompileOutcomes : ScanCompileSettles(h, outcome)

\* the registry with the last operation on each key recorded
HistOps == [ops |-> TRUE, groups |-> FALSE, calls |-> "none"]
Next == RegistryNext(HistOps)
Spec == Init /\ [][Next]_vars

\* the registry with the settled compiles recorded
HistSettles == [ops |-> FALSE, groups |-> FALSE, calls |-> "settle"]
NextSettles == RegistryNext(HistSettles)
SpecSettles == Init /\ [][NextSettles]_vars

\* the registry with the file events recorded
HistEventCalls == [ops |-> FALSE, groups |-> FALSE, calls |-> "update"]
NextEvents == RegistryNext(HistEventCalls)
SpecEvents == Init /\ [][NextEvents]_vars

\* the registry under file events alone (every record is then a compile's), with
\* the groups of overlapping compiles recorded
HistGroups == [ops |-> TRUE, groups |-> TRUE, calls |-> "none"]
NextGroups ==
    \/ \E updatedFiles \in EventBatches : UpdateCustomComponentIndex(HistGroups, updatedFiles)
    \/ \E file \in TaskFiles, outcome \in CompileOutcomes :
          CompileSettles(HistGroups, file, outcome)
    \/ ResetCustomComponents(HistGroups)
SpecGroups == Init /\ [][NextGroups]_vars

(***************************************************************************)
(* Claims about the registry                                                *)
(***************************************************************************)
\* the record an upsert of (uri, metadata) under tag builds: TagInfo with the
\* metadata's attributes, declaration location, documentation, properties and methods
RecordOf(tag, uri, metadata) ==
    [lwc |-> TRUE,
     attributes |-> [i \in 1..Len(metadata.props) |->
                        [name |-> metadata.props[i], documentation |-> None, type |-> None,
                         location |-> Some(uri), detail |-> Some("LWC custom attribute")]],
     location |-> Some([uri |-> uri,
                        range |-> IF metadata.declarationLoc = None
                                  THEN [start |-> [line |-> 0, character |-> 0],
                                        end |-> [line |-> 0, character |-> 0]]
                                  ELSE LET l == metadata.declarationLoc[1]
                                       IN [start |-> [line |-> l.start.line - 1,
                                                      character |-> l.start.column],
                                           end |-> [line |-> l.end.line - 1,
                                                    character |-> l.end.column]]]),
     documentation |-> Some(metadata.doc),
     name |-> Some(tag),
     namespace |-> Some(SubSeq(tag, 1, (CHOOSE i \in 1..Len(tag) : tag[i] = "-" /\ \A j \in 1..(i - 1) : tag[j] # "-") - 1)),
     properties |-> metadata.props,
     methods |-> metadata.methods]

\* C1: for every tag T, when the last operation on T was an upsert of R, get(T)
\* returns a record equal to R; when it was a remove (or a reset of the registry),
\* get(T) returns nothing; whatever was done to other keys before or after.
C1_RoundTrip ==
    \A t \in Tags :
        /\ lastOp[t].k = "add" =>
              getLwcByTag(LWC_TAGS, t) = Some(RecordOf(t, lastOp[t].uri, lastOp[t].metadata))
        /\ lastOp[t].k = "remove" => getLwcByTag(LWC_TAGS, t) = None

\* an upserted key and a removed key side by side, both after operations on the other
C1_Witness ==
    \E t1, t2 \in Tags :
        /\ t1 # t2
        /\ lastOp[t1].k = "add" /\ lastOp[t1].by = "results"
        /\ lastOp[t2].k = "remove"
        /\ getLwcByTag(LWC_TAGS, t1) # None
        /\ inflight[FileA] > 0

\* C2: a compile that throws or returns no metadata leaves the whole registry as
\* it was, and the scan goes on with the file after it: it never aborts.
C2_FailedCompileIsSkipped ==
    [][(lastCall'.op = "settle" /\ ~HasMetadata(lastCall'.outcome)) =>
          /\ LWC_TAGS' = LWC_TAGS
          /\ lastCall'.scan =>
                /\ scanPc' \in {"tick", "await", "done"}
                /\ scanIdx' = scanIdx + 1
                /\ scanPc' = "done" <=> scanIdx' > Len(ScanFiles)]_vars

\* the scan's compile of a file threw while the file's tag had a record, and the
\* scan is at the next file
C2_Witness ==
    /\ lastCall.op = "settle"
    /\ lastCall.scan
    /\ lastCall.outcome.kind = "throw"
    /\ tagFromFile(lastCall.file, sfdx)[1] \in DOMAIN LWC_TAGS
    /\ scanPc = "tick"
    /\ ScanFiles[scanIdx - 1] = lastCall.file

Quiescent(t) == InFlightOf(inflight, scanPc, scanIdx, sfdx, t) = 0

WholeRecords(t) ==
    {RecordOf(t, UriFile(f), m) : f \in FilesOfTag(t, sfdx), m \in Metadata}

\* C3 as amended: at every moment a stored record is the whole record of one
\* compile of one file; and once several overlapping compiles for a tag have all
\* settled, the stored record is the one built from the compile that settled last
\* among those that returned metadata (with no remove of the tag after it).
C3_LastWriteWins ==
    \A t \in Tags :
        /\ t \in DOMAIN LWC_TAGS => LWC_TAGS[t] \in WholeRecords(t)
        /\ (Quiescent(t) /\ group[t] = 2 /\ lastOp[t].k = "add") =>
              getLwcByTag(LWC_TAGS, t) = Some(RecordOf(t, lastOp[t].uri, lastOp[t].metadata))

\* compiles of two files of one tag overlapped, both settled, FileB's last
C3_Witness ==
    \E t \in Tags :
        /\ Quiescent(t) /\ group[t] = 2 /\ lastCompile[t] = "meta"
        /\ lastOp[t].k = "add" /\ lastOp[t].uri = UriFile(FileB)
        /\ inflight[FileC] > 0

\* C3 as stated: once several overlapping compiles for a tag have all settled, the
\* stored record is the one built from the compile that settled last.
C3_LastSettledWins ==
    \A t \in Tags :
        (Quiescent(t) /\ group[t] = 2 /\ lastOp[t].k = "add") =>
            /\ lastCompile[t] = "meta"
            /\ getLwcByTag(LWC_TAGS, t) = Some(RecordOf(t, lastOp[t].uri, lastOp[t].metadata))

\* a file event the registry handles: of a component's JavaScript file under lwc
IsComponentSource(file) ==
    /\ file.ext = Str.js
    /\ file.name = file.dirs[Len(file.dirs)]
    /\ Str.lwc \in {file.dirs[i] : i \in 1..Len(file.dirs)}

\* C4: one file event.  Created of a component source starts one compile of that
\* file (to be upserted under the tag derived from it) and changes no record;
\* Deleted of a component source removes the record of the derived tag and nothing
\* else; any other kind, and any other path, changes neither.
C4_EventHandling ==
    [][(lastCall'.op = "update" /\ Len(lastCall'.events) = 1) =>
          LET e == lastCall'.events[1]
              file == e.uri.path
              t == tagFromFile(file, sfdx)
          IN IF IsComponentSource(file) /\ e.type = "Created"
             THEN /\ LWC_TAGS' = LWC_TAGS
                  /\ inflight' = [inflight EXCEPT ![file] = @ + 1]
             ELSE IF IsComponentSource(file) /\ e.type = "Deleted"
             THEN /\ t[1] \notin DOMAIN LWC_TAGS'
                  /\ \A u \in Tags \ {t[1]} :
                        getLwcByTag(LWC_TAGS', u) = getLwcByTag(LWC_TAGS, u)
                  /\ inflight' = inflight
             ELSE /\ LWC_TAGS' = LWC_TAGS
                  /\ inflight' = inflight]_vars

\* a Deleted event took one tag's record away and left the other tag's
C4_Witness ==
    /\ lastCall.op = "update"
    /\ lastCall.events = <<Ev(FileC, "Deleted")>>
    /\ DOMAIN LWC_TAGS = {tagFromFile(FileA, sfdx)[1]}
    /\ lastCall.events[1].type = "Deleted"
    /\ inflight[FileC] > 0

(***************************************************************************)
(* The standard components: loadStandardComponents                          *)
(***************************************************************************)
UpperCase == <<"A", "B", "C", "D", "E", "F", "G", "H", "I", "J", "K", "L", "M",
               "N", "O", "P", "Q", "R", "S", "T", "U", "V", "W", "X", "Y", "Z">>
LowerCase == <<"a", "b", "c", "d", "e", "f", "g", "h", "i", "j", "k", "l", "m",
               "n", "o", "p", "q", "r", "s", "t", "u", "v", "w", "x", "y", "z">>

\* /[A-Z]/ and String.prototype.toLowerCase
IsUpperCase(ch) == IndexFrom(UpperCase, ch, 1) # 0
toLowerCaseChar(ch) ==
    LET i == IndexFrom(UpperCase, ch, 1) IN IF i = 0 THEN ch ELSE LowerCase[i]
toLowerCase(str) == [i \in 1..Len(str) |-> toLowerCaseChar(str[i])]

\* faulty variant: the regular expression without its g flag replaces the first match only
RECURSIVE camelToKebab_FirstOnly(_)
camelToKebab_FirstOnly(name) ==
    IF name = <<>> THEN <<>>
    ELSE IF IsUpperCase(Head(name))
    THEN <<"-", toLowerCaseChar(Head(name))>> \o Tail(name)
    ELSE <<Head(name)>> \o camelToKebab_FirstOnly(Tail(name))

\* a.name.replace(/([A-Z])/g, match => `-${match.toLowerCase()}`)
RECURSIVE camelToKebab(_)
camelToKebab(name) ==
    IF name = <<>> THEN <<>>
    ELSE (IF IsUpperCase(Head(name))
          THEN <<"-", toLowerCaseChar(Head(name))>>
          ELSE <<Head(name)>>) \o camelToKebab(Tail(name))

\* the record loadStandardComponents builds for one entry of lwc-standard.json
standardTagInfo(entry) ==
    LET attributes ==
            IF entry.attributes # None
            THEN [i \in 1..Len(entry.attributes[1]) |->
                    LET a == entry.attributes[1][i]
                    IN AttributeInfo(camelToKebab(a.name), a.description, a.type, None,
                                     Some("LWC standard attribute"))]
            ELSE <<>>
    IN [TagInfo(TRUE, attributes, None, None, None, None, None, None)
          EXCEPT !.documentation = entry.description]

\* the loop of loadStandardComponents over the keys of the parsed JSON
RECURSIVE loadStandardTags(_, _, _)
loadStandardTags(tags, std, keys) ==
    IF keys = {} THEN tags
    ELSE LET tag == CHOOSE k \in keys : TRUE
         IN loadStandardTags(MapSet(tags, s_lightning_ \o tag, standardTagInfo(std[tag])),
                             std, keys \ {tag})

loadStandardComponents(tags, std) == loadStandardTags(tags, std, DOMAIN std)

MaxNameLen == 4     \* characters of a generated source attribute name

NameChars == {"a", "A", "Z", "-"}
SourceNames == SeqsOfLen(NameChars, MaxNameLen) \ {<<>>}

StdAttr(name) == [name |-> name, description |-> Some("text"), type |-> Some("string")]

\* the contents lwc-standard.json may have: one tag with one attribute of any
\* generated name, and two samples with several tags and attributes
StandardDescriptions ==
    {[t \in {Str.button} |->
        [description |-> Some("a button"), attributes |-> Some(<<StdAttr(n)>>)]]
       : n \in SourceNames}
    \cup {[t \in {Str.button, Str.card} |->
             IF t = Str.button
             THEN [description |-> Some("a button"),
                   attributes |-> Some(<<StdAttr(Str.iconName), StdAttr(Str.label)>>)]
             ELSE [description |-> Some("a card"), attributes |-> None]],
          [t \in {Str.card} |->
             [description |-> None, attributes |-> Some(<<>>)]]}

RegistryVarsUnchanged ==
    UNCHANGED <<sfdx, inflight, scanPc, scanIdx, lastOp, lastCompile, group, lastCall>>


\* loadStandardComponents up to `await readFile(...)`
LoadStandardComponentsStart ==
    /\ stdPc = "idle"
    /\ stdPc' = "reading"
    /\ UNCHANGED <<LWC_TAGS, lwcStandard, textDocument, completion>>
    /\ RegistryVarsUnchanged

\* the file is read: JSON.parse and the loop over its tags
LoadStandardComponentsRead ==
    /\ stdPc = "reading"
    /\ LWC_TAGS' = loadStandardComponents(LWC_TAGS, lwcStandard)
    /\ stdPc' = "loaded"
    /\ UNCHANGED <<lwcStandard, textDocument, completion>>
    /\ RegistryVarsUnchanged

InitStandard ==
    /\ LWC_TAGS = EmptyMap
    /\ sfdx = TRUE
    /\ inflight = [f \in TaskFiles |-> 0]
    /\ scanPc = "idle"
    /\ scanIdx = 0
    /\ lastOp = [t \in Tags |-> NoOp]
    /\ lastCompile = [t \in Tags |-> "none"]
    /\ group = [t \in Tags |-> 0]
    /\ lastCall = [op |-> "init"]
    /\ lwcStandard \in StandardDescriptions
    /\ stdPc = "idle"
    /\ textDocument = [uri |-> UriFile(FileE), languageId |-> "html", text |-> <<>>]
    /\ completion = [op |-> "none"]

NextStandard == LoadStandardComponentsStart \/ LoadStandardComponentsRead
SpecStandard == InitStandard /\ [][NextStandard]_vars

\* kebab-case: lower-case words joined by single hyphens
IsKebabCase(name) ==
    /\ name # <<>>
    /\ \A i \in 1..Len(name) : ~IsUpperCase(name[i])
    /\ name[1] # "-"
    /\ name[Len(name)] # "-"
    /\ \A i \in 1..(Len(name) - 1) : ~(name[i] = "-" /\ name[i + 1] = "-")

\* camel-case: letters only, the first one lower-case
IsLetter(ch) == IsUpperCase(ch) \/ IndexFrom(LowerCase, ch, 1) # 0
IsCamelCase(name) ==
    /\ name # <<>>
    /\ \A i \in 1..Len(name) : IsLetter(name[i])
    /\ ~IsUpperCase(name[1])

\* the words of a kebab-case name run together, which is the source name in lower case
RECURSIVE WithoutHyphens(_)
WithoutHyphens(name) ==
    IF name = <<>> THEN <<>>
    ELSE (IF Head(name) = "-" THEN <<>> ELSE <<Head(name)>>) \o WithoutHyphens(Tail(name))

StandardLoaded(P(_, _)) ==
    stdPc = "loaded" =>
        /\ DOMAIN LWC_TAGS = {s_lightning_ \o tag : tag \in DOMAIN lwcStandard}
        /\ \A tag \in DOMAIN lwcStandard :
              LET info == LWC_TAGS[s_lightning_ \o tag]
                  src == IF lwcStandard[tag].attributes = None THEN <<>>
                         ELSE lwcStandard[tag].attributes[1]
              IN /\ Len(info.attributes) = Len(src)
                 /\ \A i \in 1..Len(src) : P(src[i].name, info.attributes[i].name)

C5_Amended(source, stored) ==
    IsCamelCase(source) =>
        /\ IsKebabCase(stored)
        /\ WithoutHyphens(stored) = toLowerCase(source)
        /\ Len(stored) = Len(source) + Cardinality({i \in 1..Len(source) : IsUpperCase(source[i])})
C5_Stated(source, stored) ==
    (source # <<>> /\ \A i \in 1..Len(source) : IsLetter(source[i])) => IsKebabCase(stored)

\* C5 as amended: after loadStandardComponents every standard record is registered
\* under 'lightning-' + bare tag name, with one attribute per source attribute, and
\* for every camel-case source name (letters, the first lower-case) the stored name
\* is kebab-case: the source's words in lower case, a hyphen before each that began
\* with a capital.
C5_KebabCaseOfCamelCase == StandardLoaded(C5_Amended)

\* iconName was stored as icon-name
C5_Witness ==
    /\ stdPc = "loaded"
    /\ Str.button \in DOMAIN lwcStandard
    /\ lwcStandard[Str.button].attributes[1][1].name = Str.iconName
    /\ LWC_TAGS[s_lightning_ \o Str.button].attributes[1].name
         = <<"i", "c", "o", "n", "-", "n", "a", "m", "e">>
    /\ s_lightning_ \o Str.card \in DOMAIN LWC_TAGS

\* C5 as stated: the stored name is kebab-case for every source name made of
\* letters, whatever its casing.
C5_KebabCaseAlways == StandardLoaded(C5_Stated)

(***************************************************************************)
(* The HTML scanner (parser/htmlScanner.ts, createScanner).  Its source is  *)
(* outside the files modelled here; it is modelled from the interface the   *)
(* completion engine uses: scan() yields one token with its offset, end     *)
(* and the scanner state after it.  Offsets are 0-based as in the code.     *)
(* Comments, doctypes and script/style contents are left out: the           *)
(* documents of this model contain no "!", no backquote and no script or    *)
(* style tag.                                                               *)
(***************************************************************************)
charAt(text, i) == IF i >= 0 /\ i < Len(text) THEN text[i + 1] ELSE ""
substring(text, from, to) == SubSeq(text, from + 1, to)

WhitespaceChars == {" ", "\n", "\t", "\r"}
ElementNameStart ==
    LET Digits == {"0", "1", "2", "3", "4", "5", "6", "7", "8", "9"}
        Letters == {UpperCase[i] : i \in 1..Len(UpperCase)}
                       \cup {LowerCase[i] : i \in 1..Len(LowerCase)}
    IN  Letters \cup Digits \cup {"_", ":"}
ElementNameChars == ElementNameStart \cup {"-", "."}
AttributeNameStops == WhitespaceChars \cup {"\"", "'", ">", "/", "="}
AttributeValueStops == WhitespaceChars \cup {"\"", "'", "=", "<", ">", "/"}

RECURSIVE advanceWhileChar(_, _, _)
advanceWhileChar(text, pos, chars) ==
    IF pos < Len(text) /\ text[pos + 1] \in chars
    THEN advanceWhileChar(text, pos + 1, chars)
    ELSE pos

RECURSIVE advanceUntilChars(_, _, _)
advanceUntilChars(text, pos, chars) ==
    IF pos < Len(text) /\ text[pos + 1] \notin chars
    THEN advanceUntilChars(text, pos + 1, chars)
    ELSE pos

skipWhitespace(text, pos) == advanceWhileChar(text, pos, WhitespaceChars)

nextElementName(text, pos) ==
    IF charAt(text, pos) \in ElementNameStart
    THEN advanceWhileChar(text, pos + 1, ElementNameChars)
    ELSE pos

nextAttributeName(text, pos) == advanceUntilChars(text, pos, AttributeNameStops)

(* A scanner is its position, its state and hasSpaceAfterTag; createScanner *)
(* starts it at an offset in state WithinContent unless told otherwise.     *)
createScanner(text, initialOffset, initialState) ==
    [pos |-> initialOffset, state |-> initialState, hasSpaceAfterTag |-> FALSE]

Token(type, offset, end, state, hasSpaceAfterTag) ==
    [type |-> type, offset |-> offset, end |-> end,
     scanner |-> [pos |-> end, state |-> state, hasSpaceAfterTag |-> hasSpaceAfterTag]]

RECURSIVE internalScan(_, _)
internalScan(text, sc) ==
    LET pos == sc.pos
        hs == sc.hasSpaceAfterTag
        ch == charAt(text, pos)
        ws == skipWhitespace(text, pos)
        Finish(type, end, state, space) == Token(type, pos, end, state, space)
        Again(state, space) ==
            internalScan(text, [pos |-> pos, state |-> state, hasSpaceAfterTag |-> space])
    IN  IF pos >= Len(text) THEN Finish("EOS", pos, sc.state, hs)
        ELSE CASE sc.state = "WithinContent" ->
                    IF ch = "<"
                    THEN IF charAt(text, pos + 1) = "/"
                         THEN Finish("EndTagOpen", pos + 2, "AfterOpeningEndTag", hs)
                         ELSE Finish("StartTagOpen", pos + 1, "AfterOpeningStartTag", hs)
                    ELSE Finish("Content", advanceUntilChars(text, pos, {"<"}), "WithinContent", hs)
               [] sc.state = "AfterOpeningEndTag" ->
                    IF nextElementName(text, pos) > pos
                    THEN Finish("EndTag", nextElementName(text, pos), "WithinEndTag", hs)
                    ELSE IF ws > pos
                    THEN Finish("Whitespace", ws, "AfterOpeningEndTag", hs)
                    ELSE IF advanceUntilChars(text, pos, {">"}) > pos
                    THEN Finish("Unknown", advanceUntilChars(text, pos, {">"}), "WithinEndTag", hs)
                    ELSE Again("WithinEndTag", hs)
               [] sc.state = "WithinEndTag" ->
                    IF ws > pos
                    THEN Finish("Whitespace", ws, "WithinEndTag", hs)
                    ELSE IF ch = ">"
                    THEN Finish("EndTagClose", pos + 1, "WithinContent", hs)
                    ELSE Finish("Unknown", pos + 1, "WithinContent", hs)
               [] sc.state = "AfterOpeningStartTag" ->
                    IF nextElementName(text, pos) > pos
                    THEN Finish("StartTag", nextElementName(text, pos), "WithinTag", FALSE)
                    ELSE IF ws > pos
                    THEN Finish("Whitespace", ws, "AfterOpeningStartTag", hs)
                    ELSE IF advanceUntilChars(text, pos, {">"}) > pos
                    THEN Finish("Unknown", advanceUntilChars(text, pos, {">"}), "WithinTag", hs)
                    ELSE Again("WithinTag", hs)
               [] sc.state = "WithinTag" ->
                    IF ws > pos
                    THEN Finish("Whitespace", ws, "WithinTag", TRUE)
                    ELSE IF hs /\ nextAttributeName(text, pos) > pos
                    THEN Finish("AttributeName", nextAttributeName(text, pos), "AfterAttributeName", FALSE)
                    ELSE IF ch = "/" /\ charAt(text, pos + 1) = ">"
                    THEN Finish("StartTagSelfClose", pos + 2, "WithinContent", hs)
                    ELSE IF ch = ">"
                    THEN Finish("StartTagClose", pos + 1, "WithinContent", hs)
                    ELSE Finish("Unknown", pos + 1, "WithinTag", hs)
               [] sc.state = "AfterAttributeName" ->
                    IF ws > pos
                    THEN Finish("Whitespace", ws, "AfterAttributeName", TRUE)
                    ELSE IF ch = "="
                    THEN Finish("DelimiterAssign", pos + 1, "BeforeAttributeValue", hs)
                    ELSE Again("WithinTag", hs)
               [] sc.state = "BeforeAttributeValue" ->
                    IF ws > pos
                    THEN Finish("Whitespace", ws, "BeforeAttributeValue", hs)
                    ELSE IF advanceUntilChars(text, pos, AttributeValueStops) > pos
                    THEN Finish("AttributeValue", advanceUntilChars(text, pos, AttributeValueStops),
                                "WithinTag", FALSE)
                    ELSE IF ch \in {"\"", "'"}
                    THEN LET close == advanceUntilChars(text, pos + 1, {ch})
                         IN  Finish("AttributeValue",
                                    IF close < Len(text) THEN close + 1 ELSE close,
                                    "WithinTag", FALSE)
                    ELSE Again("WithinTag", FALSE)

scan(text, sc) == internalScan(text, sc)
getTokenText(text, token) == substring(text, token.offset, token.end)
getTokenLength(token) == token.end - token.offset

(***************************************************************************)
(* The HTML parser (parser/htmlParser.ts, parse and Node.findNodeBefore)    *)
(* and parser/htmlTags.ts (isEmptyElement), both outside the files          *)
(* modelled here.  The tree is a sequence of nodes in creation order; node  *)
(* 1 is the document node and parent = 0 stands for "no parent".            *)
(***************************************************************************)
EMPTY_ELEMENTS == {Str.br, Str.hr, Str.img, Str.input}
isEmptyElement(e) == e # <<>> /\ toLowerCase(e) \in EMPTY_ELEMENTS

Node(start, end, parent) ==
    [tag |-> None, start |-> start, end |-> end, closed |-> FALSE,
     endTagStart |-> None, parent |-> parent]

isSameTag(node, tagInLowerCase) ==
    /\ node.tag # None
    /\ tagInLowerCase # <<>>
    /\ toLowerCase(node.tag[1]) = tagInLowerCase

RECURSIVE closeUnmatched(_, _, _, _)
closeUnmatched(nodes, curr, closeTag, endTagStart) ==
    IF ~isSameTag(nodes[curr], closeTag) /\ nodes[curr].parent # 0
    THEN closeUnmatched([nodes EXCEPT ![curr].end = endTagStart, ![curr].closed = FALSE],
                        nodes[curr].parent, closeTag, endTagStart)
    ELSE [nodes |-> nodes, curr |-> curr]

RECURSIVE closeRemaining(_, _, _)
closeRemaining(nodes, curr, length) ==
    IF nodes[curr].parent # 0
    THEN closeRemaining([nodes EXCEPT ![curr].end = length, ![curr].closed = FALSE],
                        nodes[curr].parent, length)
    ELSE nodes

parseToken(text, p, token) ==
    LET nodes == p.nodes
        curr == p.curr
        Same == [p EXCEPT !.sc = token.scanner]
    IN  CASE token.type = "StartTagOpen" ->
                [Same EXCEPT !.nodes = Append(nodes, Node(token.offset, Len(text), curr)),
                             !.curr = Len(nodes) + 1]
          [] token.type = "StartTag" ->
                [Same EXCEPT !.nodes[curr].tag = Some(getTokenText(text, token))]
          [] token.type = "StartTagClose" ->
                IF nodes[curr].tag # None /\ isEmptyElement(nodes[curr].tag[1])
                   /\ nodes[curr].parent # 0
                THEN [Same EXCEPT !.nodes[curr].end = token.end, !.nodes[curr].closed = TRUE,
                                  !.curr = nodes[curr].parent]
                ELSE [Same EXCEPT !.nodes[curr].end = token.end]
          [] token.type = "EndTagOpen" ->
                [Same EXCEPT !.endTagStart = token.offset]
          [] token.type = "EndTag" ->
                LET up == closeUnmatched(nodes, curr, toLowerCase(getTokenText(text, token)),
                                         p.endTagStart)
                IN  IF up.curr # 1
                    THEN [Same EXCEPT !.nodes = [up.nodes EXCEPT
                                                   ![up.curr].closed = TRUE,
                                                   ![up.curr].endTagStart = Some(p.endTagStart)],
                                      !.curr = up.curr]
                    ELSE [Same EXCEPT !.nodes = up.nodes, !.curr = up.curr]
          [] token.type = "StartTagSelfClose" ->
                IF nodes[curr].parent # 0
                THEN [Same EXCEPT !.nodes[curr].closed = TRUE, !.nodes[curr].end = token.end,
                                  !.curr = nodes[curr].parent]
                ELSE Same
          [] token.type = "EndTagClose" ->
                IF nodes[curr].parent # 0
                THEN [Same EXCEPT !.nodes[curr].end = token.end, !.curr = nodes[curr].parent]
                ELSE Same
          [] OTHER -> Same

RECURSIVE parseLoop(_, _)
parseLoop(text, p) ==
    LET token == scan(text, p.sc)
    IN  IF token.type = "EOS"
        THEN closeRemaining(p.nodes, p.curr, Len(text))
        ELSE parseLoop(text, parseToken(text, p, token))

parse(text) ==
    parseLoop(text, [nodes |-> <<Node(0, Len(text), 0)>>, curr |-> 1, endTagStart |-> -1,
                     sc |-> createScanner(text, 0, "WithinContent")])

children(nodes, n) == {c \in 1..Len(nodes) : nodes[c].parent = n}
Last(S) == CHOOSE c \in S : \A d \in S : d <= c

RECURSIVE findNodeBefore(_, _, _)
findNodeBefore(nodes, n, offset) ==
    LET before == {c \in children(nodes, n) : ~(offset <= nodes[c].start)}
    IN  IF before = {} THEN n
        ELSE LET child == Last(before)
             IN  IF offset > nodes[child].start
                 THEN IF offset < nodes[child].end
                      THEN findNodeBefore(nodes, child, offset)
                      ELSE IF children(nodes, child) # {}
                              /\ nodes[Last(children(nodes, child))].end = nodes[child].end
                      THEN findNodeBefore(nodes, child, offset)
                      ELSE child
                 ELSE n

(***************************************************************************)
(* Tag providers (services/tagProviders.ts, outside the files modelled      *)
(* here), modelled from the capability interface the engine calls: a        *)
(* provider backed by the registry (id lwc) and one with a fixed table of   *)
(* HTML tags (id html5).  The calls of a collector are a sequence; the      *)
(* registry is enumerated in the order of Sorted.                           *)
(***************************************************************************)

RECURSIVE Flatten(_)
Flatten(seqs) == IF seqs = <<>> THEN <<>> ELSE Head(seqs) \o Flatten(Tail(seqs))

RECURSIVE Sorted(_)
Sorted(S) ==
    LET SortAlphabet == <<"-", "0", "1", "2", "3", "4", "5", "6", "7", "8", "9">> \o LowerCase
        Less(a, b) ==
            \E i \in 1..(Len(b)) :
                /\ \A j \in 1..(i - 1) : j <= Len(a) /\ a[j] = b[j]
                /\ \/ i > Len(a)
                   \/ /\ i <= Len(a)
                      /\ IndexFrom(SortAlphabet, a[i], 1) < IndexFrom(SortAlphabet, b[i], 1)
    IN  IF S = {} THEN <<>>
        ELSE LET m == CHOOSE x \in S : \A y \in S \ {x} : Less(x, y)
             IN  <<m>> \o Sorted(S \ {m})

allTagProviders == <<"lwc", "html5">>
HtmlTags == <<Str.div, Str.p, Str.br>>

isApplicable(provider, languageId) == languageId = "html"

\* provider.collectTags(collector): the (tag, info) pairs handed to the collector
collectTags(provider, tags) ==
    IF provider = "lwc"
    THEN LET keys == Sorted(DOMAIN tags)
         IN  [i \in 1..Len(keys) |->
                 [tag |-> keys[i], info |-> [documentation |-> tags[keys[i]].documentation]]]
    ELSE [i \in 1..Len(HtmlTags) |->
             [tag |-> HtmlTags[i], info |-> [documentation |-> Some("html tag")]]]

\* provider.collectAttributes(tag, collector): (attribute, info, type) triples
collectAttributes(provider, tags, tag) ==
    IF provider = "lwc"
    THEN IF getLwcByTag(tags, tag) = None THEN <<>>
         ELSE LET attributes == getLwcByTag(tags, tag)[1].attributes
              IN  [i \in 1..Len(attributes) |->
                      [attribute |-> attributes[i].name,
                       info |-> [detail |-> attributes[i].detail,
                                 documentation |-> attributes[i].documentation],
                       type |-> None]]
    ELSE IF \E i \in 1..Len(HtmlTags) : HtmlTags[i] = tag
    THEN << [attribute |-> Str.dir, info |-> [detail |-> None, documentation |-> None],
             type |-> None],
            [attribute |-> Str.hidden, info |-> [detail |-> None, documentation |-> None],
             type |-> Some("v")],
            [attribute |-> Str.onclick, info |-> [detail |-> None, documentation |-> None],
             type |-> Some("handler")] >>
    ELSE <<>>

\* provider.collectValues(tag, attribute, collector)
collectValues(provider, tag, attribute) ==
    IF provider = "html5" /\ attribute = Str.dir /\ (\E i \in 1..Len(HtmlTags) : HtmlTags[i] = tag)
    THEN <<Str.ltr, Str.rtl>>
    ELSE <<>>

\* provider.collectExpressionValues(templateTag, collector)
collectExpressionValues(provider, tags, templateTag) ==
    IF provider = "lwc" /\ getLwcByTag(tags, templateTag) # None
    THEN getLwcByTag(tags, templateTag)[1].properties \o getLwcByTag(tags, templateTag)[1].methods
    ELSE <<>>

(***************************************************************************)
(* The completion engine (services/htmlCompletion.ts).  A position is the   *)
(* offset it stands for: positionAt and offsetAt are inverse on one text    *)
(* and clamp to it.  The closures of doComplete read the record c of what   *)
(* doComplete has bound when they run: text, offset, node, tagProviders,    *)
(* settings, and the tree, the registry and the template's tag behind the   *)
(* calls they make.  Each returns the items it leaves in result.            *)
(***************************************************************************)
positionAt(text, offset) ==
    IF offset > Len(text) THEN Len(text) ELSE IF offset < 0 THEN 0 ELSE offset
offsetAt(text, position) == positionAt(text, position)

TextEdit_replace(range, newText) == [range |-> range, newText |-> newText]
TextEdit_insert(position, newText) ==
    [range |-> [start |-> position, end |-> position], newText |-> newText]

CompletionItem(label, kind, detail, documentation, filterText, textEdit, insertTextFormat) ==
    [label |-> label, kind |-> kind, detail |-> detail, documentation |-> documentation,
     filterText |-> filterText, textEdit |-> textEdit, insertTextFormat |-> insertTextFormat]

\* /^\s*$/.test(s) for s one character, the empty string, or undefined
isWhiteSpace(s) == s = "" \/ s \in WhitespaceChars
\* s[i]
charIndex(text, i) == IF i >= 0 /\ i < Len(text) THEN text[i + 1] ELSE "undefined"

RECURSIVE isFollowedByLoop(_, _, _)
isFollowedByLoop(s, token, expectedToken) ==
    IF token.type = "Whitespace"
    THEN isFollowedByLoop(s, scan(s, token.scanner), expectedToken)
    ELSE token.type = expectedToken

isFollowedBy(s, offset, intialState, expectedToken) ==
    isFollowedByLoop(s, scan(s, createScanner(s, offset, intialState)), expectedToken)

RECURSIVE getWordStart(_, _, _)
getWordStart(s, offset, limit) ==
    IF offset > limit /\ ~isWhiteSpace(charIndex(s, offset - 1))
    THEN getWordStart(s, offset - 1, limit)
    ELSE offset

RECURSIVE getWordEnd(_, _, _)
getWordEnd(s, offset, limit) ==
    IF offset < limit /\ ~isWhiteSpace(charIndex(s, offset))
    THEN getWordEnd(s, offset + 1, limit)
    ELSE offset

\* what an exception thrown by a provider leaves in result: the call of
\* doComplete ends with it, whatever else is collected
Thrown ==
    CompletionItem(<<>>, "Exception", None, None, None,
                   TextEdit_replace([start |-> 0, end |-> 0], <<>>), "PlainText")

\* tagProviders.forEach(provider => provider.collect...(..., collector)):
\* the items the collector pushes, provider after provider; the providers
\* of c.failing throw when they are called, and nothing catches it;
\* pushed[p] holds the items the collector pushes for the p-th provider
forEachProvider(c, pushed) ==
    LET failed == {p \in 1..Len(c.tagProviders) : c.tagProviders[p] \in c.failing}
        first == IF failed = {} THEN Len(c.tagProviders) + 1
                 ELSE CHOOSE p \in failed : \A q \in failed : p <= q
    IN  Flatten([p \in 1..(first - 1) |-> pushed[p]])
        \o (IF failed = {} THEN <<>> ELSE <<Thrown>>)

\* faulty variant: a start beyond the cursor is not brought back to the cursor
getReplaceRange_NoClamp(c, replaceStart, replaceEnd) ==
    [start |-> positionAt(c.text, replaceStart), end |-> positionAt(c.text, replaceEnd)]

\* lines 36-41; replaceEnd is the cursor where the code leaves it out
getReplaceRange(c, replaceStart, replaceEnd) ==
    [start |-> positionAt(c.text, IF replaceStart > c.offset THEN c.offset ELSE replaceStart),
     end |-> positionAt(c.text, replaceEnd)]

collectOpenTagSuggestions(c, result, afterOpenBracket, tagNameEnd) ==
    LET range == getReplaceRange(c, afterOpenBracket, tagNameEnd)
        OfProvider(provider) ==
            LET detail == IF provider = "lwc" THEN Some("LWC tag") ELSE None
                found == collectTags(provider, c.tags)
            IN  [i \in 1..Len(found) |->
                    CompletionItem(found[i].tag, "Property", detail, found[i].info.documentation,
                                   None, TextEdit_replace(range, found[i].tag), "PlainText")]
    IN  result \o forEachProvider(c, [p \in DOMAIN c.tagProviders |-> OfProvider(c.tagProviders[p])])

\* the indentation of the line up to offset, or null (None) if something
\* other than whitespace comes before offset on the line
RECURSIVE getLineIndentFrom(_, _, _)
getLineIndentFrom(text, start, offset) ==
    IF start > 0
    THEN LET ch == charAt(text, start - 1)
         IN  IF ch \in {"", "\n", "\r"} THEN Some(substring(text, start, offset))
             ELSE IF ~isWhiteSpace(ch) THEN None
             ELSE getLineIndentFrom(text, start - 1, offset)
    ELSE Some(substring(text, 0, offset))

getLineIndent(text, offset) == getLineIndentFrom(text, offset, offset)

\* faulty variant: re-indents whenever both indentations exist
ReindentNeeded_Always(startIndent, endIndent) == startIndent # None /\ endIndent # None
ReindentNeeded(startIndent, endIndent) ==
    startIndent # None /\ endIndent # None /\ startIndent # endIndent

\* faulty variant: the walk starts at the outermost element instead of the nearest
RECURSIVE openAncestor_Outermost(_, _, _)
openAncestor_Outermost(nodes, curr, offset) ==
    IF curr = 0 THEN 0
    ELSE IF openAncestor_Outermost(nodes, nodes[curr].parent, offset) # 0
    THEN openAncestor_Outermost(nodes, nodes[curr].parent, offset)
    ELSE IF /\ nodes[curr].tag # None
            /\ \/ ~nodes[curr].closed
               \/ nodes[curr].endTagStart # None /\ nodes[curr].endTagStart[1] > offset
    THEN curr
    ELSE 0

\* the while loop of lines 83-104: the first node from curr upwards that has
\* a tag and is unclosed or ends after the cursor, or 0
RECURSIVE openAncestor(_, _, _)
openAncestor(nodes, curr, offset) ==
    IF curr = 0 THEN 0
    ELSE IF /\ nodes[curr].tag # None /\ nodes[curr].tag[1] # <<>>
            /\ \/ ~nodes[curr].closed
               \/ nodes[curr].endTagStart # None /\ nodes[curr].endTagStart[1] > offset
    THEN curr
    ELSE openAncestor(nodes, nodes[curr].parent, offset)

collectCloseTagSuggestions(c, result, afterOpenBracket, inOpenTag, tagNameEnd) ==
    LET range == getReplaceRange(c, afterOpenBracket, tagNameEnd)
        closeTag == IF isFollowedBy(c.text, tagNameEnd, "WithinEndTag", "EndTagClose")
                    THEN <<>> ELSE <<">">>
        curr == openAncestor(c.nodes, IF inOpenTag THEN c.nodes[c.node].parent ELSE c.node,
                             c.offset)
        tag == c.nodes[curr].tag[1]
        startIndent == getLineIndent(c.text, c.nodes[curr].start)
        endIndent == getLineIndent(c.text, afterOpenBracket - 1)
        item == CompletionItem(<<"/">> \o tag, "Property", None, None,
                               Some(<<"/">> \o tag \o closeTag),
                               TextEdit_replace(range, <<"/">> \o tag \o closeTag), "PlainText")
        OfProvider(provider) ==
            LET found == collectTags(provider, c.tags)
            IN  [i \in 1..Len(found) |->
                    CompletionItem(<<"/">> \o found[i].tag, "Property", None,
                                   found[i].info.documentation,
                                   Some(<<"/">> \o found[i].tag \o closeTag),
                                   TextEdit_replace(range, <<"/">> \o found[i].tag \o closeTag),
                                   "PlainText")]
    IN  IF curr # 0
        THEN IF ReindentNeeded(startIndent, endIndent)
             THEN Append(result,
                         [item EXCEPT
                            !.textEdit = TextEdit_replace(
                                getReplaceRange(c, afterOpenBracket - 1 - Len(endIndent[1]), c.offset),
                                startIndent[1] \o <<"<", "/">> \o tag \o closeTag),
                            !.filterText = Some(endIndent[1] \o <<"<", "/">> \o tag \o closeTag)])
             ELSE Append(result, item)
        ELSE IF inOpenTag THEN result
        ELSE result \o forEachProvider(c, [p \in DOMAIN c.tagProviders |-> OfProvider(c.tagProviders[p])])

\* faulty variant: the check for void elements is left out
collectAutoCloseTagSuggestion_NoVoidCheck(c, result, tagCloseEnd, tag) ==
    IF c.settings # None /\ c.settings[1].hideAutoCompleteProposals THEN result
    ELSE Append(result,
                CompletionItem(<<"<", "/">> \o tag \o <<">">>, "Property", None, None,
                               Some(<<"<", "/">> \o tag \o <<">">>),
                               TextEdit_insert(positionAt(c.text, tagCloseEnd),
                                               <<"$", "0", "<", "/">> \o tag \o <<">">>),
                               "Snippet"))

collectAutoCloseTagSuggestion(c, result, tagCloseEnd, tag) ==
    IF c.settings # None /\ c.settings[1].hideAutoCompleteProposals THEN result
    ELSE IF ~isEmptyElement(tag)
    THEN Append(result,
                CompletionItem(<<"<", "/">> \o tag \o <<">">>, "Property", None, None,
                               Some(<<"<", "/">> \o tag \o <<">">>),
                               TextEdit_insert(positionAt(c.text, tagCloseEnd),
                                               <<"$", "0", "<", "/">> \o tag \o <<">">>),
                               "Snippet"))
    ELSE result

collectTagSuggestions(c, result, tagStart, tagEnd) ==
    collectCloseTagSuggestions(c, collectOpenTagSuggestions(c, result, tagStart, tagEnd),
                               tagStart, TRUE, tagEnd)

RECURSIVE attributeReplaceEnd(_, _, _)
attributeReplaceEnd(text, replaceEnd, nameEnd) ==
    IF replaceEnd < nameEnd /\ charIndex(text, replaceEnd) # "<"
    THEN attributeReplaceEnd(text, replaceEnd + 1, nameEnd)
    ELSE replaceEnd

\* faulty variant: the placeholder is put in quotes
attributeSnippet_Quoted(attribute, type, value) ==
    IF type # Some("v") /\ Len(value) > 0
    THEN attribute \o <<"=", "\"", "$", "1", "\"">> ELSE attribute
\* lines 157-160
attributeSnippet(attribute, type, value) ==
    IF type # Some("v") /\ Len(value) > 0 THEN attribute \o value ELSE attribute

collectAttributeNameSuggestions(c, result, nameStart, nameEnd, currentTag) ==
    LET replaceEnd == attributeReplaceEnd(c.text, c.offset, nameEnd)
        range == getReplaceRange(c, nameStart, replaceEnd)
        value == IF isFollowedBy(c.text, nameEnd, "AfterAttributeName", "DelimiterAssign")
                 THEN <<>> ELSE <<"=", "$", "1">>
        tag == toLowerCase(currentTag)
        OfProvider(provider) ==
            LET found == collectAttributes(provider, c.tags, tag)
            IN  [i \in 1..Len(found) |->
                    CompletionItem(found[i].attribute,
                                   IF found[i].type = Some("handler") THEN "Function" ELSE "Value",
                                   found[i].info.detail, found[i].info.documentation, None,
                                   TextEdit_replace(range,
                                       attributeSnippet(found[i].attribute, found[i].type, value)),
                                   "Snippet")]
    IN  result \o forEachProvider(c, [p \in DOMAIN c.tagProviders |-> OfProvider(c.tagProviders[p])])

\* the for loop of lines 182-200: the index of the last "{" in
\* valueStart..i, or -1
RECURSIVE lastOpenBrace(_, _, _)
lastOpenBrace(text, i, valueStart) ==
    IF i >= valueStart
    THEN IF charIndex(text, i) = "{" THEN i ELSE lastOpenBrace(text, i - 1, valueStart)
    ELSE -1

\* returns whether expression suggestions are provided, and result
collectExpressionSuggestions(c, result, valueStart) ==
    LET i == lastOpenBrace(c.text, c.offset - 1, valueStart)
        range == getReplaceRange(c, i + 1, c.offset)
        OfProvider(provider) ==
            LET found == collectExpressionValues(provider, c.tags, c.templateTag[1])
            IN  [k \in 1..Len(found) |->
                    CompletionItem(found[k], "Reference", None, None, None,
                                   TextEdit_replace(range,
                                       found[k] \o (IF charIndex(c.text, c.offset) = "}"
                                                    THEN <<>> ELSE <<"}">>)),
                                   "PlainText")]
    IN  IF /\ valueStart >= 0
           /\ c.offset < Len(c.text)
           /\ charIndex(c.text, c.offset) \in {"}", ">"}
           /\ i # -1
           /\ c.templateTag # None
        THEN [provided |-> TRUE,
              result |-> result \o forEachProvider(c, [p \in DOMAIN c.tagProviders |-> OfProvider(c.tagProviders[p])])]
        ELSE [provided |-> FALSE, result |-> result]

collectAttributeValueSuggestions(c, result, valueStart, valueEnd0, currentTag, currentAttributeName) ==
    LET expression == collectExpressionSuggestions(c, result, valueStart)
        inside == c.offset > valueStart /\ c.offset <= valueEnd0
                  /\ charIndex(c.text, valueStart) = "\""
        valueEnd == IF inside /\ valueEnd0 > c.offset /\ charIndex(c.text, valueEnd0 - 1) = "\""
                    THEN valueEnd0 - 1 ELSE valueEnd0
        range == IF inside
                 THEN getReplaceRange(c, getWordStart(c.text, c.offset, valueStart + 1),
                                      getWordEnd(c.text, c.offset, valueEnd))
                 ELSE getReplaceRange(c, valueStart, valueEnd)
        addQuotes == ~inside
        tag == toLowerCase(currentTag)
        attribute == toLowerCase(currentAttributeName[1])
        OfProvider(provider) ==
            LET found == collectValues(provider, tag, attribute)
            IN  [k \in 1..Len(found) |->
                    LET insertText == IF addQuotes THEN <<"\"">> \o found[k] \o <<"\"">>
                                      ELSE found[k]
                    IN  CompletionItem(found[k], "Unit", None, None, Some(insertText),
                                       TextEdit_replace(range, insertText), "PlainText")]
    IN  IF expression.provided THEN expression.result
        ELSE result \o forEachProvider(c, [p \in DOMAIN c.tagProviders |-> OfProvider(c.tagProviders[p])])

scanNextForEndPos(c, token, nextToken) ==
    IF c.offset = token.end
    THEN LET next == scan(c.text, token.scanner)
         IN  IF next.type = nextToken /\ next.offset = c.offset THEN next.end ELSE c.offset
    ELSE c.offset

\* lines 309-318: the "/" found walking back over whitespace, or -1
RECURSIVE slashBefore(_, _)
slashBefore(text, start) ==
    IF start >= 0
    THEN IF charAt(text, start) = "/" THEN start
         ELSE IF ~isWhiteSpace(charAt(text, start)) THEN -1
         ELSE slashBefore(text, start - 1)
    ELSE -1

\* what a return of the scan loop leaves: the items of result and, for the
\* history of the request, the branch that returned and the offset it passed
Resolved(context, anchor, result) == [context |-> context, anchor |-> anchor, items |-> result]

\* the while loop of lines 253-338, from the token just scanned; no path
\* leaves an item in result without returning, so result is empty here
RECURSIVE scanLoop(_, _, _, _)
scanLoop(c, token, currentTag, currentAttributeName) ==
    LET result == <<>>
        offset == c.offset
        Continue(tag, attributeName) ==
            scanLoop(c, scan(c.text, token.scanner), tag, attributeName)
        Break == Continue(currentTag, currentAttributeName)
        state == token.scanner.state
        expression == collectExpressionSuggestions(c, result, getTokenLength(token))
    IN  IF token.type = "EOS" \/ ~(token.offset <= offset) THEN Resolved("end", offset, result)
        ELSE CASE token.type = "StartTagOpen" ->
                    IF token.end = offset
                    THEN Resolved("tag", offset,
                                  collectTagSuggestions(c, result, offset,
                                      scanNextForEndPos(c, token, "StartTag")))
                    ELSE Break
               [] token.type = "StartTag" ->
                    IF token.offset <= offset /\ offset <= token.end
                    THEN Resolved("openTag", token.offset,
                                  collectOpenTagSuggestions(c, result, token.offset, token.end))
                    ELSE Continue(getTokenText(c.text, token), currentAttributeName)
               [] token.type = "AttributeName" ->
                    IF token.offset <= offset /\ offset <= token.end
                    THEN Resolved("attributeName", token.offset,
                                  collectAttributeNameSuggestions(c, result, token.offset,
                                                                  token.end, currentTag))
                    ELSE Continue(currentTag, Some(getTokenText(c.text, token)))
               [] token.type = "DelimiterAssign" ->
                    IF token.end = offset
                    THEN Resolved("attributeValue", token.end,
                                  collectAttributeValueSuggestions(c, result, token.end, offset,
                                      currentTag, currentAttributeName))
                    ELSE Break
               [] token.type = "AttributeValue" ->
                    IF token.offset <= offset /\ offset <= token.end
                    THEN Resolved("attributeValue", token.offset,
                                  collectAttributeValueSuggestions(c, result, token.offset,
                                      token.end, currentTag, currentAttributeName))
                    ELSE Break
               [] token.type = "Whitespace" ->
                    IF offset <= token.end
                    THEN CASE state = "AfterOpeningStartTag" ->
                                Resolved("tag", token.offset,
                                    collectTagSuggestions(c, result, token.offset,
                                        scanNextForEndPos(c, token, "StartTag")))
                           [] state \in {"WithinTag", "AfterAttributeName"} ->
                                Resolved("attributeName", token.end,
                                    collectAttributeNameSuggestions(c, result, token.end, offset,
                                                                    currentTag))
                           [] state = "BeforeAttributeValue" ->
                                Resolved("attributeValue", token.end,
                                    collectAttributeValueSuggestions(c, result, token.end, offset,
                                        currentTag, currentAttributeName))
                           [] state = "AfterOpeningEndTag" ->
                                Resolved("closeTag", token.offset - 1,
                                    collectCloseTagSuggestions(c, result, token.offset - 1,
                                                               FALSE, offset))
                           [] OTHER -> Break
                    ELSE Break
               [] token.type = "EndTagOpen" ->
                    IF offset <= token.end
                    THEN Resolved("closeTag", token.offset + 1,
                                  collectCloseTagSuggestions(c, result, token.offset + 1, FALSE,
                                      scanNextForEndPos(c, token, "EndTag")))
                    ELSE Break
               [] token.type = "EndTag" ->
                    IF offset <= token.end /\ slashBefore(c.text, token.offset - 1) # -1
                    THEN Resolved("closeTag", slashBefore(c.text, token.offset - 1),
                                  collectCloseTagSuggestions(c, result,
                                      slashBefore(c.text, token.offset - 1), FALSE, token.end))
                    ELSE Break
               [] token.type = "StartTagClose" ->
                    IF offset <= token.end /\ currentTag # <<>>
                    THEN Resolved("autoClose", token.end,
                                  collectAutoCloseTagSuggestion(c, result, token.end, currentTag))
                    ELSE Break
               [] OTHER ->
                    IF expression.provided
                    THEN Resolved("expression", getTokenLength(token), expression.result)
                    ELSE IF offset <= token.end THEN Resolved("other", token.offset, result)
                    ELSE Break

\* settings[p.getId()] !== false: a provider is off if the settings name it
tagProvidersFor(languageId, settings) ==
    SelectSeq(allTagProviders,
              LAMBDA p : isApplicable(p, languageId)
                         /\ (settings = None \/ p \notin settings[1].off))

\* doComplete up to its return: what the scan loop resolved
doCompleteScan(doc, position, htmlDocument, sfdxWorkspace, settings, tags, failing) ==
    LET text == doc.text
        offset == offsetAt(text, position)
        \* an HTMLDocument without nodes has no node before any offset (0)
        node == IF htmlDocument = <<>> THEN 0 ELSE findNodeBefore(htmlDocument, 1, offset)
        c == [text |-> text, offset |-> offset, nodes |-> htmlDocument, node |-> node,
              tagProviders |-> tagProvidersFor(doc.languageId, settings),
              settings |-> settings, tags |-> tags, failing |-> failing,
              templateTag |-> tagFromFile(FsPath(doc.uri), sfdxWorkspace)]
    IN  IF node = 0 THEN Resolved("noNode", offset, <<>>)
        ELSE scanLoop(c, scan(text, createScanner(text, htmlDocument[node].start,
                                                  "WithinContent")),
                      <<>>, None)

\* faulty variant: an empty list is reported as incomplete
CompletionList_IncompleteIfEmpty(resolved) ==
    [isIncomplete |-> resolved.items = <<>>, items |-> resolved.items]
CompletionList(resolved) == [isIncomplete |-> FALSE, items |-> resolved.items]

\* the call throws if a provider threw
Throws(resolved) == \E i \in DOMAIN resolved.items : resolved.items[i] = Thrown

doComplete(doc, position, htmlDocument, sfdxWorkspace, settings, tags) ==
    CompletionList(doCompleteScan(doc, position, htmlDocument, sfdxWorkspace, settings,
                                  tags, {}))

(***************************************************************************)
(* doTagComplete: the text to insert after a typed ">" or "/".  The result  *)
(* is None for null and Some(text) otherwise.                               *)
(***************************************************************************)
\* faulty variant: any token of the expected type before the offset counts
RECURSIVE tagCompleteScan_AnyEnd(_, _, _, _)
tagCompleteScan_AnyEnd(text, token, offset, expected) ==
    IF token.type # "EOS" /\ token.end <= offset
    THEN IF token.type = expected THEN TRUE
         ELSE tagCompleteScan_AnyEnd(text, scan(text, token.scanner), offset, expected)
    ELSE FALSE

\* the two while loops over the tokens: TRUE if the loop returns the text
RECURSIVE tagCompleteScan(_, _, _, _)
tagCompleteScan(text, token, offset, expected) ==
    IF token.type # "EOS" /\ token.end <= offset
    THEN IF token.type = expected /\ token.end = offset THEN TRUE
         ELSE tagCompleteScan(text, scan(text, token.scanner), offset, expected)
    ELSE FALSE

\* faulty variant: closed nodes are not skipped
unclosedAncestor_NoSkip(nodes, node) == node

\* while (node && node.closed) node = node.parent; 0 is undefined
RECURSIVE unclosedAncestor(_, _)
unclosedAncestor(nodes, node) ==
    IF node # 0 /\ nodes[node].closed THEN unclosedAncestor(nodes, nodes[node].parent)
    ELSE node

doTagComplete(doc, position, htmlDocument) ==
    LET text == doc.text
        offset == offsetAt(text, position)
        char == charAt(text, offset - 1)
        found == findNodeBefore(htmlDocument, 1, offset)
        Rescan(node, expected) ==
            tagCompleteScan(text,
                            scan(text, createScanner(text, htmlDocument[node].start,
                                                     "WithinContent")),
                            offset, expected)
    IN  IF offset <= 0 THEN None
        ELSE IF char = ">"
        THEN LET node == htmlDocument[found]
             IN  IF /\ node.tag # None
                    /\ ~isEmptyElement(node.tag[1])
                    /\ node.start < offset
                    /\ (node.endTagStart = None \/ node.endTagStart[1] = 0
                        \/ node.endTagStart[1] > offset)
                    /\ Rescan(found, "StartTagClose")
                 THEN Some(<<"$", "0", "<", "/">> \o node.tag[1] \o <<">">>)
                 ELSE None
        ELSE IF char = "/"
        THEN LET up == unclosedAncestor(htmlDocument, found)
             IN  IF up # 0 /\ htmlDocument[up].tag # None /\ Rescan(up, "EndTagOpen")
                 THEN Some(htmlDocument[up].tag[1] \o <<">">>)
                 ELSE None
        ELSE None

(***************************************************************************)
(* Completion requests.  The documents are every concatenation of up to     *)
(* MaxPieces pieces of markup, and a list of longer ones; a request names   *)
(* an offset of the document and the settings.                              *)
(***************************************************************************)
MaxPieces == 3

Pieces ==
    {<<"<">>, <<"<", "/">>, <<">">>, <<" ">>, <<"=">>,
     <<"<">> \o Str.p, <<"<">> \o Str.cfoo}

RECURSIVE Concatenations(_)
Concatenations(n) ==
    IF n = 0 THEN {<<>>}
    ELSE Concatenations(n - 1)
         \cup {d \o p : d \in Concatenations(n - 1), p \in Pieces}


LongDocuments ==
    {<<"<">> \o Str.p \o <<" ", "a", "=", "\"", ">", "\"", ">">>,
     <<"<">> \o Str.p \o <<">", "<", "/">> \o Str.p \o <<">", "<", "/">>,
     <<"<">> \o Str.br \o <<">">>,
     <<"<">> \o Str.br \o <<" ", ">", "<">> \o Str.p \o <<">">>,
     <<"<">> \o Str.p \o <<">", "<">> \o Str.br \o <<">", "<", "/">>,
     <<"<">> \o Str.cfoo \o <<" ", ">", "<", "/">> \o Str.cfoo \o <<">">>,
     <<"<">> \o Str.div \o <<">", "<">> \o Str.p \o <<">", "<", "/">> \o Str.div \o <<">">>,
     <<"<">> \o Str.div \o <<">", "<">> \o Str.p \o <<">", "<", "/">>,
     <<"<">> \o Str.div \o <<">", "<">> \o Str.p \o <<">", "<", "/">> \o Str.p \o <<">", "<", "/", " ">>,
     <<"<">> \o Str.div \o <<">", "\n", " ", "<", "/">>,
     <<" ", "<">> \o Str.div \o <<">", "\n", " ", "<", "/">> \o Str.div \o <<">">>,
     <<" ", "<">> \o Str.div \o <<">", "\n", "<", "/">> \o Str.div,
     <<"x", "<">> \o Str.div \o <<">", "\n", " ", "<", "/">>,
     <<"<">> \o Str.div \o <<">", "x", " ", "<", "/">>,
     <<"<">> \o Str.div \o <<" ", "\"", " ", "{", "l", ">">>,
     <<"<">> \o Str.div \o <<">", "{", "x", "}", "<", "/">> \o Str.div \o <<">">>,
     <<"<">> \o Str.div \o <<" ">> \o Str.dir \o <<"=", "\"", "l", " ", "r", "\"", ">">>,
     <<"<">> \o Str.cfoo \o <<" ">> \o Str.label \o <<"=", "{", "l", "}", ">">>,
     <<"<">> \o Str.cfoo \o <<" ", "l", "<">> \o Str.p \o <<" ", "=">>,
     <<"<", "B", "R", ">", "<">> \o Str.p \o <<"/", ">", "<", " ", "p">>}

\* an opening line, a break and the start of a closing tag, each indented
IndentedDocuments ==
    LET Indents == {<<>>, <<" ">>}
        Openers ==
            {<<"<">> \o Str.p \o <<">">>,
             <<"<">> \o Str.div \o <<">", "<">> \o Str.p \o <<">">>,
             <<"<">> \o Str.div \o <<">", "<">> \o Str.p \o <<">", "<", "/">> \o Str.p \o <<">">>}
        Breaks == {<<>>, <<"\n">>, <<"x", "\n">>}
        Closers ==
            {<<"<">>, <<"<", "/">>, <<"<", "/">> \o Str.p,
             <<"<", "/", " ">> \o Str.p \o <<">">>, <<"<", " ">>}
    IN  {i1 \o o \o b \o i2 \o cl :
            i1 \in Indents, o \in Openers, b \in Breaks, i2 \in Indents, cl \in Closers}

Documents == Concatenations(MaxPieces) \cup IndentedDocuments \cup LongDocuments

FileG == [dirs |-> <<Str.p1, Str.lwc, Str.foo>>, name |-> Str.bar, ext |-> Str.html]

\* the CompletionConfiguration of a request: none, or the flag that hides
\* auto-close proposals and the providers switched off (settings[id] === false)
Settings ==
    {None, Some([hideAutoCompleteProposals |-> TRUE, off |-> {}]),
     Some([hideAutoCompleteProposals |-> FALSE, off |-> {"lwc"}])}

NoCompletion == [op |-> "none"]

\* a call of doComplete with the HTMLDocument the caller passes and the
\* providers that throw when called; it returns a list or throws
DoCompleteOn(htmlDocument, failing, position, settings) ==
    /\ completion = NoCompletion
    /\ LET resolved == doCompleteScan(textDocument, position, htmlDocument,
                                       sfdx, settings, LWC_TAGS, failing)
       IN  completion' =
              IF Throws(resolved)
              THEN [op |-> "doCompleteThrew", position |-> position, settings |-> settings,
                    failing |-> failing, context |-> resolved.context]
              ELSE [op |-> "doComplete", position |-> position, settings |-> settings,
                    hasNodes |-> htmlDocument # <<>>, failing |-> failing,
                    context |-> resolved.context, anchor |-> resolved.anchor,
                    list |-> CompletionList(resolved)]
    /\ UNCHANGED <<textDocument, LWC_TAGS, lwcStandard, stdPc>>
    /\ RegistryVarsUnchanged

\* the server's completion handler: parse the document and complete
DoComplete(position, settings) ==
    DoCompleteOn(parse(textDocument.text), {}, position, settings)

\* the list has been sent back; the server waits for the next request
CompletionReturned ==
    /\ completion # NoCompletion
    /\ completion' = NoCompletion
    /\ UNCHANGED <<textDocument, LWC_TAGS, lwcStandard, stdPc>>
    /\ RegistryVarsUnchanged

TextDocument(file, text) == [uri |-> UriFile(file), languageId |-> "html", text |-> text]
OpenDocuments ==
    {TextDocument(FileE, text) : text \in Documents}
    \cup {TextDocument(FileG, text) : text \in LongDocuments}

InitComplete ==
    /\ LWC_TAGS = addCustomTag(EmptyMap, Str.cfoo, UriFile(FileA), Meta1)
    /\ sfdx = TRUE
    /\ inflight = [f \in TaskFiles |-> 0]
    /\ scanPc = "idle"
    /\ scanIdx = 0
    /\ lastOp = [t \in Tags |-> NoOp]
    /\ lastCompile = [t \in Tags |-> "none"]
    /\ group = [t \in Tags |-> 0]
    /\ lastCall = [op |-> "init"]
    /\ lwcStandard = EmptyMap
    /\ stdPc = "idle"
    /\ textDocument \in OpenDocuments
    /\ completion = NoCompletion

NextComplete ==
    \/ \E position \in 0..Len(textDocument.text), settings \in Settings :
          DoComplete(position, settings)
    \/ CompletionReturned
SpecComplete == InitComplete /\ [][NextComplete]_vars

(***************************************************************************)
(* Tag-completion requests: the server calls doTagComplete after a typed    *)
(* character with the parse of the document.                                *)
(***************************************************************************)
DoTagComplete(position) ==
    /\ completion = NoCompletion
    /\ completion' = [op |-> "doTagComplete", position |-> position,
                      result |-> doTagComplete(textDocument, position,
                                               parse(textDocument.text))]
    /\ UNCHANGED <<textDocument, LWC_TAGS, lwcStandard, stdPc>>
    /\ RegistryVarsUnchanged

SpecTagComplete ==
    /\ InitComplete
    /\ [][\/ \E position \in 0..Len(textDocument.text) : DoTagComplete(position)
          \/ CompletionReturned]_vars

(***************************************************************************)
(* Completion requests of any caller: the HTMLDocument passed is the parse  *)
(* of the document or one without nodes, in which findNodeBefore finds      *)
(* nothing.                                                                 *)
(***************************************************************************)
SpecAnyDocument ==
    /\ InitComplete
    /\ [][\/ \E htmlDocument \in {parse(textDocument.text), <<>>},
                 position \in 0..Len(textDocument.text), settings \in Settings :
                DoCompleteOn(htmlDocument, {}, position, settings)
          \/ CompletionReturned]_vars

(***************************************************************************)
(* Completion requests during which one provider throws from every call     *)
(* of its collect methods.                                                  *)
(***************************************************************************)
SpecFailingProvider ==
    /\ InitComplete
    /\ [][\/ \E provider \in {"lwc", "html5"},
                 position \in 0..Len(textDocument.text), settings \in Settings :
                DoCompleteOn(parse(textDocument.text), {provider}, position, settings)
          \/ CompletionReturned]_vars

(***************************************************************************)
(* Claims about the completion engine.  They are stated on the last         *)
(* request: its document, cursor and settings, the tokens the scanner       *)
(* yields from the start of the node before the cursor, and the tree.       *)
(***************************************************************************)
Completed == completion.op = "doComplete"
Items == completion.list.items
Cursor == completion.position
Text == textDocument.text
Tree == parse(Text)
RequestNode == findNodeBefore(Tree, 1, Cursor)

RECURSIVE TokensFrom(_, _)
TokensFrom(text, sc) ==
    LET token == scan(text, sc)
    IN  IF token.type = "EOS" THEN <<>> ELSE <<token>> \o TokensFrom(text, token.scanner)

ScannedTokens == TokensFrom(Text, createScanner(Text, Tree[RequestNode].start, "WithinContent"))
CursorAt(token) == token.offset <= Cursor /\ Cursor <= token.end

\* the text of the last StartTag token before the k-th token, "" if none
LastStartTag(tokens, k) ==
    LET tags == {j \in 1..(k - 1) : tokens[j].type = "StartTag"}
    IN  IF tags = {} THEN <<>> ELSE getTokenText(Text, tokens[Last(tags)])

HideSet == completion.settings # None /\ completion.settings[1].hideAutoCompleteProposals
EnabledProviders ==
    SelectSeq(allTagProviders,
              LAMBDA p : completion.settings = None \/ p \notin completion.settings[1].off)
OfferedAttributes(tag) ==
    Flatten([p \in 1..Len(EnabledProviders) |->
                collectAttributes(EnabledProviders[p], LWC_TAGS, toLowerCase(tag))])
OfferedTags ==
    Flatten([p \in 1..Len(EnabledProviders) |-> collectTags(EnabledProviders[p], LWC_TAGS)])

IsAttributeNameItem(item) ==
    item.kind \in {"Value", "Function"} /\ item.insertTextFormat = "Snippet"
IsAutoCloseItem(item) == item.kind = "Property" /\ item.insertTextFormat = "Snippet"
IsCloseTagItem(item) ==
    item.kind = "Property" /\ item.insertTextFormat = "PlainText" /\ item.label[1] = "/"
IsOpenTagItem(item) ==
    item.kind = "Property" /\ item.insertTextFormat = "PlainText" /\ item.label[1] # "/"

\* C6: whenever the cursor lies inside an AttributeName token of the scan
\* (token start <= cursor <= token end), the list doComplete returns holds
\* exactly the attribute-name suggestions the enabled providers offer for
\* the last StartTag seen, and no item of another kind.
C6_AttributeNameOnly ==
    Completed =>
        LET tokens == ScannedTokens
        IN  \A k \in DOMAIN tokens :
                tokens[k].type = "AttributeName" /\ CursorAt(tokens[k])
                => LET offered == OfferedAttributes(LastStartTag(tokens, k))
                   IN  /\ Len(Items) = Len(offered)
                       /\ \A i \in DOMAIN Items :
                            /\ IsAttributeNameItem(Items[i])
                            /\ Items[i].label = offered[i].attribute

\* the first character at or after offset that is no whitespace, "" if none
NextCharAfterWhitespace(text, offset) ==
    LET rest == {i \in offset..(Len(text) - 1) : text[i + 1] \notin WhitespaceChars}
    IN  IF rest = {} THEN "" ELSE text[(CHOOSE i \in rest : \A j \in rest : i <= j) + 1]

\* the cursor is in the whitespace right after the tag name, token k - 1,
\* and no "=" follows the attribute position
AfterTagName(tokens, k) ==
    /\ k \in DOMAIN tokens /\ k > 1
    /\ tokens[k].type = "Whitespace"
    /\ tokens[k - 1].type = "StartTag"
    /\ tokens[k].offset < Cursor /\ Cursor <= tokens[k].end
    /\ NextCharAfterWhitespace(Text, Cursor) # "="

AttributeNameItems(P(_, _)) ==
    Completed =>
        LET tokens == ScannedTokens
        IN  \A k \in DOMAIN tokens :
                AfterTagName(tokens, k)
                => LET offered == OfferedAttributes(getTokenText(Text, tokens[k - 1]))
                   IN  /\ Len(Items) = Len(offered)
                       /\ \A i \in DOMAIN Items :
                            /\ Items[i].label = offered[i].attribute
                            /\ offered[i].type # Some("v")
                               => P(Items[i], offered[i].attribute)

C7_Amended(item, attribute) ==
    item.textEdit = TextEdit_replace([start |-> Cursor, end |-> Cursor],
                                     attribute \o <<"=", "$", "1">>)
C7_Stated(item, attribute) ==
    item.textEdit = TextEdit_replace([start |-> Cursor, end |-> Cursor],
                                     attribute \o <<"=", "\"", "$", "1", "\"">>)

C8_AutoClose ==
    Completed =>
        LET tokens == ScannedTokens
            AtStartTagClose(k) == tokens[k].type = "StartTagClose" /\ CursorAt(tokens[k])
        IN  /\ \A i \in DOMAIN Items :
                 IsAutoCloseItem(Items[i])
                 => \E k \in DOMAIN tokens :
                      LET tag == LastStartTag(tokens, k)
                      IN  /\ AtStartTagClose(k)
                          /\ tag # <<>>
                          /\ toLowerCase(tag) \notin EMPTY_ELEMENTS
                          /\ ~HideSet
                          /\ Items = <<Items[i]>>
                          /\ Items[i].textEdit =
                                TextEdit_insert(tokens[k].end,
                                                <<"$", "0", "<", "/">> \o tag \o <<">">>)
            /\ \A k \in DOMAIN tokens :
                 /\ AtStartTagClose(k)
                 /\ \/ HideSet
                    \/ toLowerCase(LastStartTag(tokens, k)) \in EMPTY_ELEMENTS
                    \/ LastStartTag(tokens, k) = <<>>
                 => \A i \in DOMAIN Items : ~IsAutoCloseItem(Items[i])

C8_Witness ==
    /\ Completed
    /\ Len(Items) = 1
    /\ IsAutoCloseItem(Items[1])
    /\ Items[1].label = <<"<", "/">> \o Str.p \o <<">">>

LineBreaks == {"\n", "\r"}
\* the offset at which the line that holds offset i starts
LineStart(text, i) ==
    LET breaks == {j \in 1..i : text[j] \in LineBreaks}
    IN  IF breaks = {} THEN 0 ELSE Last(breaks)
\* the whitespace that line begins with
LeadingWhitespace(text, i) ==
    LET from == LineStart(text, i)
        stops == {j \in from..(Len(text) - 1) : text[j + 1] \notin WhitespaceChars \ LineBreaks}
    IN  substring(text, from,
                  IF stops = {} THEN Len(text) ELSE CHOOSE j \in stops : \A k \in stops : j <= k)
FirstOnLine(text, i) == LineStart(text, i) + Len(LeadingWhitespace(text, i)) = i
StartsWith(s, prefix) == Len(s) >= Len(prefix) /\ SubSeq(s, 1, Len(prefix)) = prefix

RECURSIVE AncestorsOrSelf(_, _)
AncestorsOrSelf(nodes, n) ==
    IF n = 0 THEN {} ELSE {n} \cup AncestorsOrSelf(nodes, nodes[n].parent)

\* of the nodes from n upwards that have a tag and are unclosed or have
\* their end tag after the cursor, the innermost (a node is created after
\* its parent); 0 if there is none
NearestOpen(nodes, n, cursor) ==
    LET open == {a \in AncestorsOrSelf(nodes, n) :
                    /\ nodes[a].tag # None
                    /\ \/ ~nodes[a].closed
                       \/ nodes[a].endTagStart # None /\ nodes[a].endTagStart[1] > cursor}
    IN  IF open = {} THEN 0 ELSE Last(open)

\* P(nodes, a, inOpenTag) for a request that resolved to close-tag
\* suggestions, alone or after the open-tag suggestions (inOpenTag), with a
\* the nearest open ancestor
CloseTagResolution(P(_, _, _)) ==
    Completed /\ completion.context \in {"closeTag", "tag"}
    => LET nodes == Tree
           node == findNodeBefore(nodes, 1, Cursor)
           inOpenTag == completion.context = "tag"
       IN  P(nodes,
             NearestOpen(nodes, IF inOpenTag THEN nodes[node].parent ELSE node, Cursor),
             inOpenTag)

C9_Holds(nodes, a, inOpenTag) ==
    a # 0 =>
        LET item == Items[Len(Items)]
            tag == nodes[a].tag[1]
            bracket == completion.anchor - 1
            openIndent == LeadingWhitespace(Text, nodes[a].start)
            lineIndent == LeadingWhitespace(Text, bracket)
            plain == item.textEdit.newText[1] = "/"
        IN  /\ ~plain => /\ openIndent # lineIndent
                         /\ item.textEdit.range.start = bracket - Len(lineIndent)
                         /\ item.textEdit.range.start = LineStart(Text, bracket)
                         /\ StartsWith(item.textEdit.newText, openIndent \o <<"<", "/">> \o tag)
            /\ openIndent = lineIndent => plain
            /\ plain => /\ item.textEdit.range.start
                             = (IF bracket + 1 > Cursor THEN Cursor ELSE bracket + 1)
                        /\ StartsWith(item.textEdit.newText, <<"/">> \o tag)
            /\ /\ FirstOnLine(Text, nodes[a].start)
               /\ FirstOnLine(Text, bracket)
               /\ openIndent # lineIndent
               => ~plain

\* C9: a close-tag suggestion for a matched ancestor is re-indented only if
\* the leading whitespace of the line of the opening tag differs from that
\* of the line the closing tag starts on; its range then starts at the
\* start of that line, covering its leading whitespace, and its text starts
\* with the opening line's indentation followed by </tag.  With identical
\* indentations the edit is the plain replacement of the range after "<"
\* by /tag.  (It is re-indented whenever the indentations differ and both
\* tags are the first thing on their lines.)
C9_Reindent == CloseTagResolution(C9_Holds)

C9_Reindented(nodes, a, inOpenTag) ==
    a # 0 /\ Items[Len(Items)].textEdit.newText[1] # "/"
C9_NotReindented(nodes, a, inOpenTag) == ~C9_Reindented(nodes, a, inOpenTag)
C9_Witness ==
    /\ Completed /\ completion.context \in {"closeTag", "tag"}
    /\ ~CloseTagResolution(C9_NotReindented)

Labels(items) == [i \in DOMAIN items |-> items[i].label]
C10_Holds(nodes, a, inOpenTag) ==
    LET closeItems == SelectSeq(Items, IsCloseTagItem)
        offered == OfferedTags
    IN  IF a # 0
        THEN /\ Len(closeItems) = 1
             /\ closeItems[1].label = <<"/">> \o nodes[a].tag[1]
             /\ Items[Len(Items)] = closeItems[1]
             /\ IF inOpenTag
                THEN Labels(SubSeq(Items, 1, Len(Items) - 1))
                        = [i \in DOMAIN offered |-> offered[i].tag]
                ELSE Len(Items) = 1
        ELSE IF inOpenTag
        THEN Labels(Items) = [i \in DOMAIN offered |-> offered[i].tag]
        ELSE Labels(Items) = [i \in DOMAIN offered |-> <<"/">> \o offered[i].tag]

\* C10: close-tag resolution walks up from the node before the cursor (from
\* its parent in an opening-tag context); the first node that has a tag and
\* is unclosed or has its end tag after the cursor yields exactly one
\* close-tag suggestion, /tag, and no other: it is the whole list in a
\* closing-tag context and follows the open-tag suggestions in an
\* opening-tag context.  Only when no such node exists and the context is a
\* closing tag are all providers' tags offered as closing tags.
C10_NearestOpenAncestor == CloseTagResolution(C10_Holds)

C10_Witness ==
    /\ Completed
    /\ Text = <<"<">> \o Str.div \o <<">", "<">> \o Str.p \o <<">", "<", "/">> \o Str.div \o <<">">>
    /\ Cursor = 10
    /\ completion.context = "closeTag"
    /\ Labels(Items) = << <<"/">> \o Str.p >>

(***************************************************************************)
(* Claims about doTagComplete, stated on the last request.                  *)
(***************************************************************************)
TagCompleted == completion.op = "doTagComplete"
TypedChar == IF Cursor > 0 THEN Text[Cursor] ELSE ""
\* some token of the given type, scanning from the start of node n, ends at
\* the cursor
TokenEndsAtCursor(nodes, n, type) ==
    LET tokens == TokensFrom(Text, createScanner(Text, nodes[n].start, "WithinContent"))
    IN  \E k \in DOMAIN tokens : tokens[k].type = type /\ tokens[k].end = Cursor
IsTemplate(result) == result # None /\ Head(result[1]) = "$"

\* C11: doTagComplete returns the template $0</tag> if and only if the
\* character before the offset is ">", the node before the offset has a tag
\* that is no void element, starts before the offset, has no end tag
\* starting at or before the offset, and the scan from the node's start has
\* a StartTagClose token that ends exactly at the offset; the tag of the
\* template is that node's.
C11_TagCompleteOnClose ==
    TagCompleted =>
        LET nodes == Tree
            n == findNodeBefore(nodes, 1, Cursor)
            node == nodes[n]
            closes ==
                /\ TypedChar = ">"
                /\ node.tag # None
                /\ toLowerCase(node.tag[1]) \notin EMPTY_ELEMENTS
                /\ node.start < Cursor
                /\ (node.endTagStart = None \/ node.endTagStart[1] > Cursor)
                /\ TokenEndsAtCursor(nodes, n, "StartTagClose")
        IN  /\ closes <=> IsTemplate(completion.result)
            /\ closes => completion.result
                            = Some(<<"$", "0", "<", "/">> \o node.tag[1] \o <<">">>)
            /\ TypedChar = ">" /\ ~closes => completion.result = None

C11_Witness ==
    /\ TagCompleted
    /\ Text = <<"<">> \o Str.cfoo \o <<">">>
    /\ Cursor = 7
    /\ completion.result = Some(<<"$", "0", "<", "/">> \o Str.cfoo \o <<">">>)

\* the innermost node from n upwards that is not closed, 0 if none
FirstUnclosed(nodes, n) ==
    LET open == {a \in AncestorsOrSelf(nodes, n) : ~nodes[a].closed}
    IN  IF open = {} THEN 0 ELSE Last(open)

\* C12: after a typed "/", doTagComplete returns tag> (no leading </) for
\* the first unclosed node from the node before the offset upwards, if that
\* node has a tag and the scan from its start has an EndTagOpen token that
\* ends exactly at the offset; otherwise, and after every character other
\* than ">" and "/" and at offset 0, it returns nothing.
C12_TagCompleteOnSlash ==
    TagCompleted =>
        LET nodes == Tree
            up == FirstUnclosed(nodes, findNodeBefore(nodes, 1, Cursor))
            slash ==
                /\ TypedChar = "/"
                /\ up # 0
                /\ nodes[up].tag # None
                /\ TokenEndsAtCursor(nodes, up, "EndTagOpen")
        IN  /\ slash => completion.result = Some(nodes[up].tag[1] \o <<">">>)
            /\ TypedChar # ">" /\ ~slash => completion.result = None

C12_Witness ==
    /\ TagCompleted
    /\ Text = <<"<">> \o Str.div \o <<">", "<">> \o Str.p \o <<">", "<", "/">>
    /\ Cursor = 10
    /\ completion.result = Some(Str.p \o <<">">>)

\* C13: every list doComplete returns has isIncomplete = FALSE, and when the
\* HTMLDocument has no node before the offset the call returns a list
\* without items.
C13_MissingNode ==
    Completed =>
        /\ completion.list.isIncomplete = FALSE
        /\ ~completion.hasNodes => Items = <<>>

C13_Witness ==
    /\ Completed
    /\ ~completion.hasNodes
    /\ Text = <<"<">> \o Str.p \o <<">">>
    /\ Cursor = 3
    /\ completion.list = [isIncomplete |-> FALSE, items |-> <<>>]

\* the settings with the providers of S switched off as well
WithOff(settings, S) ==
    IF settings = None THEN Some([hideAutoCompleteProposals |-> FALSE, off |-> S])
    ELSE Some([settings[1] EXCEPT !.off = @ \cup S])
\* the items the providers that do not fail contribute to the last request
ItemsOfOthers ==
    doCompleteScan(textDocument, completion.position, Tree, sfdx,
                   WithOff(completion.settings, completion.failing), LWC_TAGS, {}).items

\* C14: a request during which an enabled provider throws still returns a
\* list, and the list holds every item of the other enabled providers for
\* the resolved context.
C14_ProviderLocal ==
    completion.op \in {"doComplete", "doCompleteThrew"} /\ completion.failing # {}
    => /\ completion.op = "doComplete"
       /\ LET others == ItemsOfOthers
          IN  \A i \in DOMAIN others : \E j \in DOMAIN Items : Items[j] = others[i]

HasMarker(text) == \E i \in DOMAIN text : text[i] = "$"
IsLiteralEdit(item) == item.insertTextFormat = "PlainText" /\ ~HasMarker(item.textEdit.newText)

\* C15 (amended): in every returned list, the auto-close suggestion is the
\* only insert edit with a template: a snippet put at one position, with the
\* marker $0.  Attribute-name suggestions are snippet replace edits whose
\* text is the attribute name, followed by the value placeholder =$1 or by
\* nothing.  Every other item (open tag, close tag, attribute value,
\* expression reference) is a literal replace edit: plain text without a
\* placeholder marker.
C15_EditKinds ==
    Completed =>
        \A i \in DOMAIN Items :
            LET item == Items[i]
                text == item.textEdit.newText
            IN  CASE completion.context = "autoClose" ->
                        /\ item.insertTextFormat = "Snippet"
                        /\ item.textEdit.range.start = item.textEdit.range.end
                        /\ SubSeq(text, 1, 2) = <<"$", "0">>
                        /\ ~HasMarker(Tail(text))
                  [] completion.context = "attributeName" ->
                        /\ item.insertTextFormat = "Snippet"
                        /\ text \in {item.label, item.label \o <<"=", "$", "1">>}
                  [] OTHER -> IsLiteralEdit(item)

C15_Witness ==
    /\ Completed
    /\ completion.context = "attributeName"
    /\ \E i \in DOMAIN Items : HasMarker(Items[i].textEdit.newText)
    /\ \E i \in DOMAIN Items : ~HasMarker(Items[i].textEdit.newText)

\* C15 (as stated): every item that is not the auto-close suggestion is a
\* literal replace edit, plain text without a placeholder marker.
C15_LiteralUnlessAutoClose ==
    Completed /\ completion.context # "autoClose"
    => \A i \in DOMAIN Items : IsLiteralEdit(Items[i])

(***************************************************************************)
(* Further claims about the registry                                        *)
(***************************************************************************)
\* the tag of every file that has one, per kind of workspace
TagOfTable == [f \in TaskFiles, b \in BOOLEAN |-> tagFromFile(f, b)[1]]
\* the registry after the compile of file settles with outcome
Settled(tags, file, outcome) ==
    addCustomTagFromFileResume(tags, TagOfTable[file, sfdx], file, outcome).tags
SameElsewhere(tags, after, t) ==
    \A u \in (DOMAIN tags \cup DOMAIN after) \ {t} :
        getLwcByTag(after, u) = getLwcByTag(tags, u)

\* on the registry as it is: an upsert or a remove of t leaves every other
\* key as it was, and the settling of two compiles in flight for files with
\* distinct tags gives the same registry in both orders
C16_Commute ==
    /\ \A t \in Tags :
          /\ SameElsewhere(LWC_TAGS, removeCustomTag(LWC_TAGS, t), t)
          /\ \A f \in FilesOfTag(t, sfdx), m \in Metadata :
                SameElsewhere(LWC_TAGS, addCustomTag(LWC_TAGS, t, UriFile(f), m), t)
    /\ \A f1, f2 \in {f \in TaskFiles : inflight[f] > 0} :
          TagOfTable[f1, sfdx] # TagOfTable[f2, sfdx]
          => \A o1, o2 \in CompileOutcomes :
                Settled(Settled(LWC_TAGS, f1, o1), f2, o2)
                   = Settled(Settled(LWC_TAGS, f2, o2), f1, o1)

\* a step changes the record of t only if it upserts or removes t
C16_Frame ==
    \A t \in Tags :
        lastOp'[t] = lastOp[t] => getLwcByTag(LWC_TAGS', t) = getLwcByTag(LWC_TAGS, t)

\* C16: upserts and removes are per-key.  In every reachable registry an
\* upsert or remove of a tag leaves the records of all other tags unchanged
\* and two compile-and-upsert tasks with distinct tags give the same
\* registry in either order of completion; and every step of the program
\* changes only the records of the tags it upserts or removes.
C16_PerKey == []C16_Commute /\ [][C16_Frame]_vars

\* compiles of two files with distinct tags are in flight at once, over a
\* registry that holds a record stored by an earlier compile
C16_Witness ==
    \E f1, f2 \in TaskFiles, t \in Tags :
        /\ TagOfTable[f1, sfdx] # TagOfTable[f2, sfdx]
        /\ inflight[f1] > 0 /\ inflight[f2] > 0
        /\ lastOp[t].k = "add" /\ lastOp[t].by = "task"
        /\ getLwcByTag(LWC_TAGS, t) # None

(***************************************************************************)
(* Further claims about doComplete                                          *)
(***************************************************************************)
Quotes == {"\"", "'"}
\* the span from..to of the text holds no whitespace
NoWhitespace(from, to) == \A i \in from..(to - 1) : Text[i + 1] \notin WhitespaceChars
\* the whitespace-delimited word under the cursor within lo..hi
WordUnderCursor(lo, hi) ==
    [start |-> CHOOSE i \in lo..Cursor :
                  NoWhitespace(i, Cursor) /\ \A j \in lo..(i - 1) : ~NoWhitespace(j, Cursor),
     end |-> CHOOSE i \in Cursor..hi :
                  NoWhitespace(Cursor, i) /\ \A j \in (i + 1)..hi : ~NoWhitespace(Cursor, j)]
\* expression-reference detection applies from the boundary valueStart
ExpressionApplies(valueStart) ==
    /\ Cursor < Len(Text)
    /\ Text[Cursor + 1] \in {"}", ">"}
    /\ \E i \in valueStart..(Cursor - 1) : i >= 0 /\ Text[i + 1] = "{"
    /\ tagFromFile(FsPath(textDocument.uri), sfdx) # None

\* the edits of the value suggestions for the AttributeValue token under
\* the cursor are as C17 states
ValueEdits(token) ==
    LET first == Text[token.offset + 1]
        closed == token.end - token.offset >= 2 /\ Text[token.end] = first
        inside == /\ first \in Quotes
                  /\ token.offset < Cursor
                  /\ (Cursor < token.end \/ ~closed)
        word == WordUnderCursor(token.offset + 1, IF closed THEN token.end - 1 ELSE token.end)
    IN  \A i \in DOMAIN Items :
            IF inside
            THEN Items[i].textEdit = TextEdit_replace(word, Items[i].label)
            ELSE Items[i].textEdit
                    = TextEdit_replace([start |-> token.offset, end |-> token.end],
                                       <<"\"">> \o Items[i].label \o <<"\"">>)

\* C17: with the cursor in an AttributeValue token and no expression
\* reference detected, the value suggestions replace the whitespace-
\* delimited word under the cursor, within the quotes, by the bare value
\* when the cursor is inside a quoted value, and the whole value span by
\* the value in double quotes otherwise.
C17_ValueQuoting ==
    Completed =>
        LET tokens == ScannedTokens
        IN  \A k \in DOMAIN tokens :
                /\ tokens[k].type = "AttributeValue"
                /\ CursorAt(tokens[k])
                /\ ~ExpressionApplies(tokens[k].offset)
                => ValueEdits(tokens[k])

\* scanning backward from i down to lo: the first "{" not closed by a "}"
\* passed on the way (depth counts those), or -1
RECURSIVE UnmatchedBrace(_, _, _)
UnmatchedBrace(i, lo, depth) ==
    IF i < lo \/ i < 0 THEN -1
    ELSE CASE Text[i + 1] = "}" -> UnmatchedBrace(i - 1, lo, depth + 1)
           [] Text[i + 1] = "{" -> IF depth = 0 THEN i
                                   ELSE UnmatchedBrace(i - 1, lo, depth - 1)
           [] OTHER -> UnmatchedBrace(i - 1, lo, depth)

IsExpressionItem(item) == item.kind = "Reference"
\* the edit of an expression suggestion for the brace at offset brace
ExpressionEdit(item, brace) ==
    TextEdit_replace([start |-> brace + 1, end |-> Cursor],
                     item.label \o (IF Text[Cursor + 1] = "}" THEN <<>> ELSE <<"}">>))

\* C18: expression suggestions are returned only if the character at the
\* cursor is "}" or ">", the document's tag identity is resolvable and an
\* unmatched "{" lies between the start of a token under the cursor and the
\* cursor; each then replaces the span from just after that "{" to the
\* cursor and appends "}" exactly if the character at the cursor is not "}".
C18_ExpressionDetection ==
    Completed =>
        LET tokens == ScannedTokens
        IN  \A i \in DOMAIN Items :
                IsExpressionItem(Items[i])
                => /\ Cursor < Len(Text)
                   /\ Text[Cursor + 1] \in {"}", ">"}
                   /\ tagFromFile(FsPath(textDocument.uri), sfdx) # None
                   /\ \E k \in DOMAIN tokens :
                        /\ CursorAt(tokens[k])
                        /\ LET brace == UnmatchedBrace(Cursor - 1, tokens[k].offset, 0)
                           IN  brace # -1 /\ Items[i].textEdit = ExpressionEdit(Items[i], brace)

(***************************************************************************)
(* The workspace scan on its way: indexCustomComponents is called once,     *)
(* its awaits settle, and meanwhile records are deleted or the registry is  *)
(* reset.  Every compile the scan awaits settles (the compiler returns or   *)
(* throws), and a settled await resumes the loop.                           *)
(***************************************************************************)
SpecScan ==
    /\ Init
    /\ [][\/ IndexCustomComponents(HistGroups)
          \/ ScanTick(HistGroups)
          \/ \E outcome \in CompileOutcomes : ScanCompileSettles(HistGroups, outcome)
          \/ \E f \in Files : UpdateCustomComponentIndex(HistGroups, <<Ev(f, "Deleted")>>)
          \/ ResetCustomComponents(HistGroups)]_vars
    /\ WF_vars(ScanTick(HistGroups))
    /\ WF_vars(\E outcome \in CompileOutcomes : ScanCompileSettles(HistGroups, outcome))

\* when the scan is over, the file's outcome shows in the registry
ScannedFileIndexed(file) ==
    LET tag == tagFromFile(file, sfdx)
        t == tag[1]
    IN  tag # None =>
            /\ (lastCompile[t] = "meta" /\ lastOp[t].k # "remove")
                  => /\ lastOp[t].k = "add"
                     /\ getLwcByTag(LWC_TAGS, t)
                            = Some(RecordOf(t, UriFile(file), lastOp[t].metadata))
            /\ (lastCompile[t] = "fail" /\ lastOp[t] = NoOp) => t \notin DOMAIN LWC_TAGS
            /\ lastCompile[t] \in {"meta", "fail"}

\* C19: a scan that was started finishes, whatever its compiles return or
\* throw; and when it has finished every discovered file with a tag whose
\* compile returned metadata has its record under its tag unless the tag
\* was removed since, every discovered file with a tag was compiled, and a
\* file whose compile failed left no record.
C19_ScanCompletes ==
    /\ (scanPc # "idle") ~> (scanPc = "done")
    /\ [](scanPc = "done" => \A i \in DOMAIN ScanFiles : ScannedFileIndexed(ScanFiles[i]))

\* the scan is over: one file's compile returned metadata and its record is
\* stored, another's failed and left none
C19_Witness ==
    /\ scanPc = "done"
    /\ \E i, j \in DOMAIN ScanFiles :
          LET ti == tagFromFile(ScanFiles[i], sfdx)
              tj == tagFromFile(ScanFiles[j], sfdx)
          IN  /\ ti # None /\ tj # None
              /\ lastCompile[ti[1]] = "meta" /\ ti[1] \in DOMAIN LWC_TAGS
              /\ lastCompile[tj[1]] = "fail" /\ tj[1] \notin DOMAIN LWC_TAGS

(***************************************************************************)
(* Further claims about the registry under file events                      *)
(***************************************************************************)
\* the type of the last Created or Deleted event of the batch that the
\* registry handles for tag t, "none" if there is none
LastEventOn(t, events) ==
    LET on == {i \in DOMAIN events :
                  /\ EventHandled(events[i])
                  /\ events[i].type \in {"Created", "Deleted"}
                  /\ tagFromFile(FsPath(events[i].uri), sfdx) = Some(t)}
    IN  IF on = {} THEN "none"
        ELSE events[CHOOSE i \in on : \A j \in on : j <= i].type

\* C20: the registry converges to the event order.  When the last event
\* delivered for a tag was a Deleted one and the compiles in flight then
\* complete, the registry holds no record for the tag: a compile started by
\* an earlier Created event leaves no record behind when it completes after
\* the delete.
C20_EventOrder ==
    [][\A t \in Tags :
          (/\ lastCall.op = "update"
           /\ LastEventOn(t, lastCall.events) = "Deleted"
           /\ lastCall'.op # "update"
           /\ inflight' # inflight
           /\ TotalInFlight(inflight', scanPc') = 0)
          => t \notin DOMAIN LWC_TAGS']_vars

(***************************************************************************)
(* The ranges of the edits doComplete returns                               *)
(***************************************************************************)
\* C21: every replace edit of a list doComplete returns (every item but the
\* auto-close insertion) has a range that holds the cursor: range start <=
\* cursor <= range end, whatever the tokens, the cursor and the branch that
\* returned.
C21_RangeHoldsCursor ==
    Completed /\ completion.context # "autoClose" =>
        \A i \in DOMAIN Items :
            /\ Items[i].textEdit.range.start <= Cursor
            /\ Cursor <= Items[i].textEdit.range.end

\* a returned list whose items were anchored beyond the cursor (the cursor
\* is inside the whitespace before an attribute name) and replace the empty
\* range at the cursor
C21_Witness ==
    /\ Completed
    /\ completion.context = "attributeName"
    /\ completion.anchor > Cursor
    /\ Items # <<>>
    /\ \A i \in DOMAIN Items :
          Items[i].textEdit.range = [start |-> Cursor, end |-> Cursor]

====
